---- MODULE Spec2Model ----
(***************************************************************************)
(* Model of graph_builder: build_graph (entity pass, relation/event pass,  *)
(* integration inference, provenance pass) followed by normalize_graph.    *)
(* Strings are TLA+ strings; a character is a string of length one.        *)
(***************************************************************************)
EXTENDS Integers, Sequences, FiniteSets, TLC

(***************************************************************************)
(* Characters and Python string primitives                                 *)
(***************************************************************************)

\* The characters the model uses, in ascending code-point order.
Chars == " ()-.0123456789ABCDEFGHIJKLMNOPQRSTUVWXYZ_abcdefghijklmnopqrstuvwxyz"

UpperChars == "ABCDEFGHIJKLMNOPQRSTUVWXYZ"

LowerChars == "abcdefghijklmnopqrstuvwxyz"

Digits == "0123456789"

CharAt(s, i) == SubSeq(s, i, i)

CharSet(s) == { CharAt(s, i) : i \in 1..Len(s) }

\* Position of a character in Chars: stands for its code point (order only).
Ord == [ c \in CharSet(Chars) |-> CHOOSE i \in 1..Len(Chars) : CharAt(Chars, i) = c ]

\* str.lower() on one character.
LowerChar == [ c \in CharSet(Chars) |->
                 IF c \in CharSet(UpperChars)
                 THEN CharAt(LowerChars, CHOOSE i \in 1..Len(UpperChars) : CharAt(UpperChars, i) = c)
                 ELSE c ]

\* The class [a-z0-9] of the regular expressions.
IsLowerAlnum(c) == c \in CharSet(LowerChars) \cup CharSet(Digits)

\* str.lower()
Lower(s) ==
  LET f[i \in 0..Len(s)] == IF i = 0 THEN "" ELSE f[i-1] \o LowerChar[CharAt(s, i)]
  IN  f[Len(s)]

\* str.strip(): whitespace is the space character.
Strip(s) ==
  LET nonsp == { i \in 1..Len(s) : CharAt(s, i) # " " }
  IN  IF nonsp = {} THEN ""
      ELSE SubSeq(s, CHOOSE i \in nonsp : \A j \in nonsp : i <= j,
                     CHOOSE i \in nonsp : \A j \in nonsp : j <= i)

\* Python's "sub in s".
Contains(sub, s) ==
  \E i \in 1..(Len(s) - Len(sub) + 1) : SubSeq(s, i, i + Len(sub) - 1) = sub

\* str.startswith
StartsWith(s, p) == Len(p) <= Len(s) /\ SubSeq(s, 1, Len(p)) = p

\* Python's s < t on strings: lexicographic by code point.
StrLess(s, t) ==
  \E i \in 1..(Len(t)) :
     /\ i <= Len(s) + 1
     /\ SubSeq(s, 1, i - 1) = SubSeq(t, 1, i - 1)
     /\ \/ i = Len(s) + 1
        \/ Ord[CharAt(s, i)] < Ord[CharAt(t, i)]

(***************************************************************************)
(* utils.py                                                                *)
(***************************************************************************)

\* The vocabulary with the fallback relation as a member.
CONTROLLED_RELATIONS_AndFallback ==
  { "operates", "offers", "enabled_by", "supported_by", "includes",
    "integrated_with", "executed_via", "acquired", "launched",
    "has_event", "described_in", "partnered_with", "related_to" }

CONTROLLED_RELATIONS ==
  { "operates", "offers", "enabled_by", "supported_by", "includes",
    "integrated_with", "executed_via", "acquired", "launched",
    "has_event", "described_in", "partnered_with" }

\* re.sub(r'[^a-z0-9]', '', name.lower())
normalize_for_comparison(name) ==
  LET l == Lower(name)
      f[i \in 0..Len(l)] ==
        IF i = 0 THEN ""
        ELSE IF IsLowerAlnum(CharAt(l, i)) THEN f[i-1] \o CharAt(l, i) ELSE f[i-1]
  IN  f[Len(l)]

is_alias(name1, name2) ==
  IF name1 = "" \/ name2 = "" THEN FALSE
  ELSE LET norm1 == normalize_for_comparison(name1)
           norm2 == normalize_for_comparison(name2)
           min_len == IF Len(norm1) < Len(norm2) THEN Len(norm1) ELSE Len(norm2)
       IN  \/ norm1 = norm2
           \/ /\ Contains(norm1, norm2) \/ Contains(norm2, norm1)
              /\ min_len >= 4

invalid_patterns ==
  { "founded", "launched", "rolled out", "focuses on", "established",
    "created", "started", "began", "introduced", "announced",
    "provides", "offers", "delivers", "enables", "supports" }

verb_prefixes == { "founded", "launched", "rolled", "focuses", "established" }

is_invalid_entity_name(name) ==
  IF name = "" \/ Len(name) < 3 THEN TRUE
  ELSE LET lower == Strip(Lower(name))
       IN  \/ lower \in invalid_patterns
           \/ \E v \in verb_prefixes : StartsWith(lower, v)

\* The suffix pattern without its optional periods.
SuffixFormsNoPeriod == { "inc", "corp", "llc", "ltd", "co", "corporation" }

\* The words the suffix pattern (?:Inc\.?|Corp\.?|LLC|Ltd\.?|Co\.?|Corporation)\.?
\* matches, case ignored.
SuffixForms ==
  { "inc", "inc.", "inc..", "corp", "corp.", "corp..", "llc", "llc.",
    "ltd", "ltd.", "ltd..", "co", "co.", "co..", "corporation", "corporation." }

\* re.sub(rf'\s+{suffixes}\.?\s*$', '', name.strip(), flags=IGNORECASE).strip()
normalize_entity_label(name) ==
  IF name = "" THEN ""
  ELSE LET s == Strip(name)
           sp == { i \in 1..Len(s) : CharAt(s, i) = " " }
       IN  IF sp = {} THEN s
           ELSE LET last == CHOOSE i \in sp : \A j \in sp : j <= i
                    word == SubSeq(s, last + 1, Len(s))
                IN  IF Lower(word) \in SuffixForms
                    THEN Strip(SubSeq(s, 1, last))
                    ELSE s

\* re.sub(r"[^a-z0-9]", "_", name.lower().strip())
normalize_name(name) ==
  LET l == Strip(Lower(name))
      f[i \in 0..Len(l)] ==
        IF i = 0 THEN ""
        ELSE f[i-1] \o (IF IsLowerAlnum(CharAt(l, i)) THEN CharAt(l, i) ELSE "_")
  IN  f[Len(l)]

generate_id(label, node_type) == Lower(node_type) \o "_" \o normalize_name(label)

\* The longest label, the first of the list among those of that length.
choose_first_longest(labels) ==
  IF Len(labels) = 0 THEN ""
  ELSE LET longest == { i \in 1..Len(labels) : \A j \in 1..Len(labels) : Len(labels[j]) <= Len(labels[i]) }
       IN  labels[CHOOSE i \in longest : \A j \in longest : i <= j]

\* sorted(labels, key=lambda x: (-len(x), x))[0]
choose_best_label(labels) ==
  IF Len(labels) = 0 THEN ""
  ELSE IF Len(labels) = 1 THEN labels[1]
  ELSE LET before(a, b) == Len(a) > Len(b) \/ (Len(a) = Len(b) /\ StrLess(a, b))
           best == CHOOSE i \in 1..Len(labels) :
                     \A j \in 1..Len(labels) : ~ before(labels[j], labels[i])
       IN  labels[best]

(***************************************************************************)
(* Python values                                                           *)
(***************************************************************************)

\* dict.get(field, default) on an input record whose field may be absent.
FieldOr(r, f, default) == IF f \in DOMAIN r THEN r[f] ELSE default

\* An absent string (None); Python's truth test treats None and "" alike.
None == ""

\* An optional integer: <<>> is None, <<n>> is n.
OptInt(r, f) == IF f \in DOMAIN r THEN <<r[f]>> ELSE <<>>

Truthy(opt) == opt # <<>> /\ opt # <<0>>

\* An insertion-ordered dict is a sequence of entries [k, v].
Has(d, k) == \E i \in 1..Len(d) : d[i].k = k

IndexOf(d, k) == CHOOSE i \in 1..Len(d) : d[i].k = k

Get(d, k) == d[IndexOf(d, k)].v

\* d[k] = v keeps the position of a key that is already present.
Put(d, k, v) ==
  IF Has(d, k) THEN [d EXCEPT ![IndexOf(d, k)] = [k |-> k, v |-> v]]
  ELSE Append(d, [k |-> k, v |-> v])

Values(d) == [ i \in 1..Len(d) |-> d[i].v ]

\* A dict that is only looked up is a function; f.get(k) is None when absent.
Lookup(f, k) == IF k \in DOMAIN f THEN f[k] ELSE None

\* The append without the membership test.
AddSourceAlways(sources, src) == Append(sources, src)

\* "if src not in sources: sources.append(src)"
AddSource(sources, src) ==
  IF \E i \in 1..Len(sources) : sources[i] = src THEN sources ELSE Append(sources, src)

\* dict.update: later values overwrite earlier ones.
UpdateAttrs(a, b) ==
  [ k \in (DOMAIN a) \cup (DOMAIN b) |-> IF k \in DOMAIN b THEN b[k] ELSE a[k] ]

Node(id, type, label, attributes, sources) ==
  [ id |-> id, type |-> type, label |-> label, attributes |-> attributes, sources |-> sources ]

Edge(from_id, to_id, relation, sources) ==
  [ from_id |-> from_id, to_id |-> to_id, relation |-> relation, sources |-> sources ]

EdgeKey(e) == << e.from_id, e.to_id, e.relation >>

(***************************************************************************)
(* build_graph: the locals of one call                                     *)
(***************************************************************************)

DocumentName == "document.pdf"

TYPE_PRECEDENCE(t) ==
  CASE t = "Platform"   -> 4
    [] t = "Service"    -> 3
    [] t = "Partner"    -> 2
    [] t = "Company"    -> 1
    [] t = "Capability" -> 1
    [] t = "Event"      -> 0
    [] OTHER            -> 0

\* The comparison with != in place of >.
OutranksOrDiffers(new_type, current_type) ==
  TYPE_PRECEDENCE(new_type) # TYPE_PRECEDENCE(current_type)

\* The comparison that never holds: the first sighting's type is kept.
OutranksNever(new_type, current_type) == FALSE

\* "if new_precedence > current_precedence"
Outranks(new_type, current_type) == TYPE_PRECEDENCE(new_type) > TYPE_PRECEDENCE(current_type)

\* The locals at the start of build_graph.
InitLocals ==
  [ label_to_node       |-> << >>,
    normalized_to_label |-> << >>,
    name_to_id          |-> << >>,
    edge_dict           |-> << >>,
    chunk_entities      |-> << >>,
    raised              |-> FALSE ]

\* One iteration of the first pass: one entity record of one chunk.
EntitySighting(st, chunk_id, page, ent) ==
  LET name       == Strip(ent.name)
      node_type  == FieldOr(ent, "type", "Entity")
      normalized == normalize_entity_label(name)
      attrs      == FieldOr(ent, "attributes", << >>)
      src        == [ chunk_id |-> chunk_id, page |-> page ]
      seen       == normalized \in DOMAIN st.normalized_to_label
      canonical_label == IF seen THEN st.normalized_to_label[normalized] ELSE name
      old        == Get(st.label_to_node, canonical_label)
      upgrade    == Outranks(node_type, old.type)
      merged     == Node(IF upgrade THEN generate_id(canonical_label, node_type) ELSE old.id,
                         IF upgrade THEN node_type ELSE old.type,
                         old.label,
                         UpdateAttrs(old.attributes, attrs),
                         AddSource(old.sources, src))
      fresh      == Node(generate_id(name, node_type), node_type, name, attrs, << src >>)
      node       == IF seen THEN merged ELSE fresh
      ids        == (name :> node.id) @@ (canonical_label :> node.id)
  IN  [ st EXCEPT
          !.chunk_entities = (chunk_id :> Append(FieldOr(st.chunk_entities, chunk_id, << >>),
                                                 << node_type, name >>)) @@ st.chunk_entities,
          !.label_to_node = Put(st.label_to_node, canonical_label, node),
          !.normalized_to_label = IF seen THEN st.normalized_to_label
                                  ELSE (normalized :> name) @@ st.normalized_to_label,
          !.name_to_id = ids @@ st.name_to_id ]

\* "if key not in edge_dict: edge_dict[key] = Edge(.., [src])
\*  elif src not in edge_dict[key].sources: edge_dict[key].sources.append(src)"
UpsertEdge(edge_dict, from_id, to_id, relation, src) ==
  LET key == << from_id, to_id, relation >>
  IN  IF ~ Has(edge_dict, key)
      THEN Put(edge_dict, key, Edge(from_id, to_id, relation, << src >>))
      ELSE LET e == Get(edge_dict, key)
           IN  Put(edge_dict, key, [e EXCEPT !.sources = AddSource(e.sources, src)])

\* The relation record with name_to_id[name] in place of name_to_id.get(name):
\* an unresolved name raises KeyError.
RelationRecordIndexed(st, src_prov, rel) ==
  LET from_name == Strip(rel.from)
      to_name   == Strip(rel.to)
      given     == FieldOr(rel, "relation", "related_to")
      relation  == IF given \in CONTROLLED_RELATIONS THEN given ELSE "related_to"
  IN  IF from_name \notin DOMAIN st.name_to_id \/ to_name \notin DOMAIN st.name_to_id
      THEN [ st EXCEPT !.raised = TRUE ]
      ELSE IF st.name_to_id[from_name] # st.name_to_id[to_name]
      THEN [ st EXCEPT !.edge_dict = UpsertEdge(st.edge_dict, st.name_to_id[from_name],
                                                st.name_to_id[to_name], relation, src_prov) ]
      ELSE st

\* One relation record of the second pass.
RelationRecord(st, src_prov, rel) ==
  LET from_name == Strip(rel.from)
      to_name   == Strip(rel.to)
      given     == FieldOr(rel, "relation", "related_to")
      relation  == IF given \in CONTROLLED_RELATIONS THEN given ELSE "related_to"
      from_id   == Lookup(st.name_to_id, from_name)
      to_id     == Lookup(st.name_to_id, to_name)
  IN  IF from_id # None /\ to_id # None /\ from_id # to_id
      THEN [ st EXCEPT !.edge_dict = UpsertEdge(st.edge_dict, from_id, to_id, relation, src_prov) ]
      ELSE st

\* The relation an event gives to its related entity.
EventRelation(ev_type) ==
  IF ev_type = "Launch" THEN "launched"
  ELSE IF ev_type = "Acquisition" THEN "acquired"
  ELSE "related_to"

\* One event record of the second pass.
EventRecord(st, src_prov, ev) ==
  LET ev_name  == ev.name
      ev_id    == "event_" \o normalize_name(ev_name)
      ev_type  == FieldOr(ev, "type", None)
      year     == OptInt(ev, "year")
      first    == ~ Has(st.label_to_node, ev_id)
      \* label_to_node[ev_name] raises KeyError when ev_name is not a key
      keyError == ~ first /\ ~ Has(st.label_to_node, ev_name)
      old      == Get(st.label_to_node, ev_name)
      node     == IF first
                  THEN Node(ev_id, "Event", ev_name,
                            [ year |-> year, tags |-> FieldOr(ev, "tags", << >>) ],
                            << src_prov >>)
                  ELSE [ old EXCEPT
                           !.attributes = IF Truthy(year)
                                          THEN UpdateAttrs(old.attributes, [ year |-> year ])
                                          ELSE old.attributes,
                           !.sources = AddSource(old.sources, src_prov) ]
      nodes1   == Put(st.label_to_node, ev_name, node)
      comp_name == FieldOr(ev, "company", None)
      comp_id   == IF comp_name # None THEN Lookup(st.name_to_id, comp_name) ELSE None
      related_name == FieldOr(ev, "related_to", None)
      related_id   == IF related_name # None THEN Lookup(st.name_to_id, related_name) ELSE None
      rel      == EventRelation(ev_type)
      edges1   == IF comp_id # None
                  THEN UpsertEdge(st.edge_dict, comp_id, ev_id, "has_event", src_prov)
                  ELSE st.edge_dict
      edges2   == IF related_id # None
                  THEN UpsertEdge(edges1, ev_id, related_id, rel, src_prov)
                  ELSE edges1
      edges3   == IF /\ related_id # None /\ comp_id # None /\ comp_id # related_id
                     /\ ev_type \in { "Acquisition", "Launch" }
                  THEN UpsertEdge(edges2, comp_id, related_id, rel, src_prov)
                  ELSE edges2
  IN  IF keyError THEN [ st EXCEPT !.raised = TRUE ]
      ELSE [ st EXCEPT !.label_to_node = nodes1, !.edge_dict = edges3 ]

\* "for rel in ext.get('relations', [])"
RelationsOf(st, src_prov, rels) ==
  LET f[i \in 0..Len(rels)] ==
        IF i = 0 THEN st ELSE RelationRecord(f[i-1], src_prov, rels[i])
  IN  f[Len(rels)]

\* An exception raised by one record ends the loop.
EventUnlessRaised(st, src_prov, ev) == IF st.raised THEN st ELSE EventRecord(st, src_prov, ev)

\* "for ev in ext.get('events', [])"
EventsOf(st, src_prov, evs) ==
  LET f[i \in 0..Len(evs)] ==
        IF i = 0 THEN st ELSE EventUnlessRaised(f[i-1], src_prov, evs[i])
  IN  f[Len(evs)]

\* One chunk of the second pass: its relation records, then its event records.
RelationChunk(st, chunk) ==
  LET src_prov == [ chunk_id |-> chunk.chunk_id, page |-> chunk.page ]
  IN  EventsOf(RelationsOf(st, src_prov, FieldOr(chunk.ext, "relations", << >>)),
               src_prov, FieldOr(chunk.ext, "events", << >>))

\* [x[2] for x in pairs if x[1] == typ]
LabelsOfType(pairs, typ) ==
  LET f[i \in 0..Len(pairs)] ==
        IF i = 0 THEN << >>
        ELSE f[i-1] \o (IF pairs[i][1] = typ THEN << pairs[i][2] >> ELSE << >>)
  IN  f[Len(pairs)]

\* One chunk of the integration inference pass.
InferenceChunk(st, chunk) ==
  LET entities_in_chunk  == FieldOr(st.chunk_entities, chunk.chunk_id, << >>)
      services_in_chunk  == LabelsOfType(entities_in_chunk, "Service")
      platforms_in_chunk == LabelsOfType(entities_in_chunk, "Platform")
      service_id  == Lookup(st.name_to_id, services_in_chunk[1])
      platform_id == Lookup(st.name_to_id, platforms_in_chunk[1])
      rels == FieldOr(chunk.ext, "relations", << >>)
      has_integration_signal ==
        \E i \in 1..Len(rels) : FieldOr(rels[i], "relation", None) = "integrated_with"
  IN  IF /\ Len(services_in_chunk) = 1 /\ Len(platforms_in_chunk) = 1
         /\ service_id # None /\ platform_id # None
         /\ ~ Has(st.edge_dict, << service_id, platform_id, "integrated_with" >>)
         /\ has_integration_signal
      THEN [ st EXCEPT !.edge_dict =
               Put(st.edge_dict, << service_id, platform_id, "integrated_with" >>,
                   Edge(service_id, platform_id, "integrated_with",
                        << [ chunk_id |-> chunk.chunk_id, page |-> chunk.page ] >>)) ]
      ELSE st

InferencePass(st, extractions) ==
  LET f[i \in 0..Len(extractions)] ==
        IF i = 0 THEN st ELSE InferenceChunk(f[i-1], extractions[i])
  IN  f[Len(extractions)]

\* The Source node of one chunk, unless its id is already a key of label_to_node.
SourceNode(nodes, c) ==
  LET source_id == "source_" \o c.chunk_id
  IN  IF Has(nodes, source_id) THEN nodes
      ELSE Put(nodes, source_id,
               Node(source_id, "Source",
                    "Chunk " \o c.chunk_id \o " (page " \o ToString(c.page) \o ")",
                    [ chunk_id |-> c.chunk_id, page |-> c.page, document |-> DocumentName ],
                    << >>))

\* The Source nodes, with one for the document itself whatever the chunks are.
SourceNodesAndDocument(nodes, extractions) ==
  LET f[i \in 0..Len(extractions)] ==
        IF i = 0 THEN Put(nodes, "source_document",
                          Node("source_document", "Source", DocumentName, << >>, << >>))
        ELSE SourceNode(f[i-1], extractions[i])
  IN  f[Len(extractions)]

SourceNodes(nodes, extractions) ==
  LET f[i \in 0..Len(extractions)] ==
        IF i = 0 THEN nodes ELSE SourceNode(f[i-1], extractions[i])
  IN  f[Len(extractions)]

core_types == { "Company", "Platform", "Service", "Product", "Capability", "Partner", "Event" }

\* described_in edges of one node, one per source record whose Source node exists.
DescribedInOne(edge_dict, nodes, node, src) ==
  LET source_id == "source_" \o src.chunk_id
  IN  IF Has(nodes, source_id)
      THEN UpsertEdge(edge_dict, node.id, source_id, "described_in", src)
      ELSE edge_dict

DescribedIn(edge_dict, nodes, node) ==
  LET f[i \in 0..Len(node.sources)] ==
        IF i = 0 THEN edge_dict ELSE DescribedInOne(f[i-1], nodes, node, node.sources[i])
  IN  f[Len(node.sources)]

DescribedInIfCore(edge_dict, nodes, node) ==
  IF node.type \in core_types THEN DescribedIn(edge_dict, nodes, node) ELSE edge_dict

\* The Source nodes, then the described_in edges of every core-type node.
ProvenancePass(st, extractions) ==
  LET nodes == SourceNodes(st.label_to_node, extractions)
      f[i \in 0..Len(nodes)] ==
        IF i = 0 THEN st.edge_dict ELSE DescribedInIfCore(f[i-1], nodes, nodes[i].v)
  IN  [ st EXCEPT !.label_to_node = nodes, !.edge_dict = f[Len(nodes)] ]

\* raw_graph = Graph(nodes=list(label_to_node.values()), edges=list(edge_dict.values()))
RawGraph(st) == [ nodes |-> Values(st.label_to_node), edges |-> Values(st.edge_dict) ]

(***************************************************************************)
(* normalize_graph                                                         *)
(***************************************************************************)

\* Step 1: Source nodes are kept, other nodes unless their label is invalid.
ValidNodes(nodes) ==
  SelectSeq(nodes, LAMBDA n : n.type = "Source" \/ ~ is_invalid_entity_name(n.label))

\* Inner loop of step 2, one later node: it joins the group of node when it
\* is not processed yet, has the type of node and its label is an alias.
AliasScan(acc, node, other) ==
  IF other.id \in acc.processed THEN acc
  ELSE IF other.type = node.type /\ is_alias(node.label, other.label)
       THEN [ aliases |-> Append(acc.aliases, other),
              processed |-> acc.processed \cup { other.id } ]
       ELSE acc

\* The group of valid_nodes[i] and the processed set after the inner loop.
AliasesOf(valid_nodes, i, processed) ==
  LET f[j \in i..Len(valid_nodes)] ==
        IF j = i THEN [ aliases |-> << valid_nodes[i] >>, processed |-> processed ]
        ELSE AliasScan(f[j-1], valid_nodes[i], valid_nodes[j])
  IN  f[Len(valid_nodes)]

\* all_sources.extend(alias.sources) for every alias
AllSources(aliases) ==
  LET f[i \in 0..Len(aliases)] ==
        IF i = 0 THEN << >> ELSE f[i-1] \o aliases[i].sources
  IN  f[Len(aliases)]

\* The first record of each (chunk_id, page), in order.
UniqueSources(all_sources) ==
  LET key(src) == << src.chunk_id, src.page >>
      f[i \in 0..Len(all_sources)] ==
        IF i = 0 THEN << >>
        ELSE f[i-1] \o (IF \E j \in 1..(i-1) : key(all_sources[j]) = key(all_sources[i])
                        THEN << >> ELSE << all_sources[i] >>)
  IN  f[Len(all_sources)]

\* The merged node with the id of the first alias in place of a recomputed one.
MergedGroupKeepId(aliases, best_label) ==
  Node(aliases[1].id, aliases[1].type, best_label,
       aliases[1].attributes, UniqueSources(AllSources(aliases)))

\* The node a group of two or more aliases is merged into, best_label being
\* the label chosen among theirs.
MergedGroup(aliases, best_label) ==
  Node(generate_id(best_label, aliases[1].type), aliases[1].type, best_label,
       aliases[1].attributes, UniqueSources(AllSources(aliases)))

MergedNode(aliases) ==
  MergedGroup(aliases, choose_best_label([ i \in 1..Len(aliases) |-> aliases[i].label ]))

\* merged_nodes.append(merged), node_map[alias.id] = merged.id for every alias,
\* processed.add(node.id)
RecordGroup(acc, node, scan, merged) ==
  [ merged_nodes |-> Append(acc.merged_nodes, merged),
    node_map     |-> [ x \in { scan.aliases[k].id : k \in 1..Len(scan.aliases) } |-> merged.id ]
                       @@ acc.node_map,
    processed    |-> scan.processed \cup { node.id } ]

\* A group of one keeps its node as it is.
CloseGroup(acc, node, scan) ==
  RecordGroup(acc, node, scan,
              IF Len(scan.aliases) > 1 THEN MergedNode(scan.aliases) ELSE node)

\* One iteration of the outer loop of step 2.
AliasStep(acc, valid_nodes, i) ==
  IF valid_nodes[i].id \in acc.processed THEN acc
  ELSE CloseGroup(acc, valid_nodes[i], AliasesOf(valid_nodes, i, acc.processed))

\* Step 2: merged_nodes and node_map (old id -> new id).
MergeAliases(valid_nodes) ==
  LET f[i \in 0..Len(valid_nodes)] ==
        IF i = 0 THEN [ merged_nodes |-> << >>, node_map |-> << >>, processed |-> {} ]
        ELSE AliasStep(f[i-1], valid_nodes, i)
  IN  f[Len(valid_nodes)]

\* Step 3 without the self-loop test.
RepointEdgeKeepLoops(edge, node_map) ==
  LET new_from == IF edge.from_id \in DOMAIN node_map THEN node_map[edge.from_id] ELSE edge.from_id
      new_to   == IF edge.to_id \in DOMAIN node_map THEN node_map[edge.to_id] ELSE edge.to_id
      values   == { node_map[k] : k \in DOMAIN node_map }
  IN  IF new_from \notin values \/ new_to \notin values THEN << >>
      ELSE IF edge.relation \notin CONTROLLED_RELATIONS THEN << >>
      ELSE << Edge(new_from, new_to, edge.relation, edge.sources) >>

\* Step 3 without the relation filter.
RepointEdgeAnyRelation(edge, node_map) ==
  LET new_from == IF edge.from_id \in DOMAIN node_map THEN node_map[edge.from_id] ELSE edge.from_id
      new_to   == IF edge.to_id \in DOMAIN node_map THEN node_map[edge.to_id] ELSE edge.to_id
      values   == { node_map[k] : k \in DOMAIN node_map }
  IN  IF new_from \notin values \/ new_to \notin values THEN << >>
      ELSE IF new_from = new_to THEN << >>
      ELSE << Edge(new_from, new_to, edge.relation, edge.sources) >>

\* Step 3, one edge: re-pointed through node_map, or dropped.
RepointEdge(edge, node_map) ==
  LET new_from == IF edge.from_id \in DOMAIN node_map THEN node_map[edge.from_id] ELSE edge.from_id
      new_to   == IF edge.to_id \in DOMAIN node_map THEN node_map[edge.to_id] ELSE edge.to_id
      values   == { node_map[k] : k \in DOMAIN node_map }
  IN  IF new_from \notin values \/ new_to \notin values THEN << >>
      ELSE IF new_from = new_to THEN << >>
      ELSE IF edge.relation \notin CONTROLLED_RELATIONS THEN << >>
      ELSE << Edge(new_from, new_to, edge.relation, edge.sources) >>

UpdatedEdges(edges, node_map) ==
  LET f[i \in 0..Len(edges)] ==
        IF i = 0 THEN << >> ELSE f[i-1] \o RepointEdge(edges[i], node_map)
  IN  f[Len(edges)]

\* Step 4: the direct edges made redundant by an event-mediated path.
EventMediated(updated_edges, merged_nodes) ==
  LET event_nodes == { merged_nodes[i].id : i \in { k \in 1..Len(merged_nodes) :
                                                      merged_nodes[k].type = "Event" } }
      idx == 1..Len(updated_edges)
  IN  { << updated_edges[j].from_id, updated_edges[i].to_id, updated_edges[i].relation >> :
          << i, j >> \in { p \in idx \X idx :
                /\ updated_edges[p[1]].from_id \in event_nodes
                /\ updated_edges[p[1]].relation \in { "launched", "acquired" }
                /\ updated_edges[p[2]].to_id = updated_edges[p[1]].from_id
                /\ updated_edges[p[2]].relation = "has_event" } }

\* Step 4 that removes nothing.
FinalEdgesKeepDirect(updated_edges, merged_nodes) == updated_edges

FinalEdges(updated_edges, merged_nodes) ==
  LET event_mediated == EventMediated(updated_edges, merged_nodes)
  IN  SelectSeq(updated_edges, LAMBDA e : EdgeKey(e) \notin event_mediated)

\* extend-if-absent of the sources of one edge into another's.
MergeSourceList(into, from) ==
  LET f[i \in 0..Len(from)] ==
        IF i = 0 THEN into ELSE AddSource(f[i-1], from[i])
  IN  f[Len(from)]

\* Step 5 that keeps the first edge of a key and forgets the sources of the others.
DedupEdgeKeepFirst(d, edge) ==
  IF ~ Has(d, EdgeKey(edge)) THEN Put(d, EdgeKey(edge), edge) ELSE d

\* Step 5, one edge.
DedupEdge(d, edge) ==
  IF ~ Has(d, EdgeKey(edge)) THEN Put(d, EdgeKey(edge), edge)
  ELSE LET existing == Get(d, EdgeKey(edge))
       IN  Put(d, EdgeKey(edge),
               [ existing EXCEPT !.sources = MergeSourceList(existing.sources, edge.sources) ])

DedupEdges(final_edges) ==
  LET f[i \in 0..Len(final_edges)] ==
        IF i = 0 THEN << >> ELSE DedupEdge(f[i-1], final_edges[i])
  IN  f[Len(final_edges)]

\* Python's < on a tuple of three strings.
TripleLess(a, b) ==
  \/ StrLess(a[1], b[1])
  \/ a[1] = b[1] /\ StrLess(a[2], b[2])
  \/ a[1] = b[1] /\ a[2] = b[2] /\ StrLess(a[3], b[3])

NodeSortKey(n) == << n.type, n.label, n.id >>

EdgeSortKey(e) == << e.from_id, e.relation, e.to_id >>

\* sorted(), one element: index i goes before the first index whose key is
\* greater, so elements with equal keys keep their order.
SortInsert(order, i, keys) ==
  LET greater == { p \in 1..Len(order) : TripleLess(keys[i], keys[order[p]]) }
      p == IF greater = {} THEN Len(order) + 1
           ELSE CHOOSE q \in greater : \A r \in greater : q <= r
  IN  SubSeq(order, 1, p - 1) \o << i >> \o SubSeq(order, p, Len(order))

\* sorted(seq, key=...), keys[i] being the key of seq[i].
Sorted(seq, keys) ==
  LET f[i \in 0..Len(seq)] ==
        IF i = 0 THEN << >> ELSE SortInsert(f[i-1], i, keys)
      order == f[Len(seq)]
  IN  [ p \in 1..Len(seq) |-> seq[order[p]] ]

\* Step 6: nodes by (type, label, id), edges by (from_id, relation, to_id).
SortedNodes(merged_nodes) ==
  Sorted(merged_nodes, [ i \in 1..Len(merged_nodes) |-> NodeSortKey(merged_nodes[i]) ])

\* Step 6 that leaves the edges in the order of edge_dict.
SortedEdgesAsGiven(edge_values) == edge_values

SortedEdges(edge_values) ==
  Sorted(edge_values, [ i \in 1..Len(edge_values) |-> EdgeSortKey(edge_values[i]) ])

\* Steps 3 to 6, merge being the merged_nodes and node_map of step 2.
NormalizeEdges(edges, merge) ==
  SortedEdges(Values(DedupEdges(FinalEdges(UpdatedEdges(edges, merge.node_map),
                                           merge.merged_nodes))))

NormalizeMerged(graph, merge) ==
  [ nodes |-> SortedNodes(merge.merged_nodes), edges |-> NormalizeEdges(graph.edges, merge) ]

normalize_graph(graph) == NormalizeMerged(graph, MergeAliases(ValidNodes(graph.nodes)))

\* The Edge objects of step 3 share their sources list with the edge of the
\* graph passed they were made from (sources=edge.sources): each edge of
\* updated_edges with the index of that edge.
UpdatedOrigins(edges, node_map) ==
  LET f[i \in 0..Len(edges)] ==
        IF i = 0 THEN << >>
        ELSE f[i-1] \o [ k \in 1..Len(RepointEdge(edges[i], node_map)) |->
                           [ origin |-> i, edge |-> RepointEdge(edges[i], node_map)[k] ] ]
  IN  f[Len(edges)]

\* final_edges with the indexes.
FinalOrigins(tagged, event_mediated) ==
  SelectSeq(tagged, LAMBDA t : EdgeKey(t.edge) \notin event_mediated)

\* The edges passed once step 5 has appended to existing.sources: the edge
\* whose list the first edge of a key shares has the merged sources of the
\* key, d being edge_dict.
SourcesWritten(edges, tagged, d) ==
  [ i \in 1..Len(edges) |->
      IF \E j \in 1..Len(tagged) :
            /\ tagged[j].origin = i
            /\ \A k \in 1..(j - 1) : EdgeKey(tagged[k].edge) # EdgeKey(tagged[j].edge)
      THEN [ edges[i] EXCEPT !.sources =
               Get(d, EdgeKey(tagged[CHOOSE j \in 1..Len(tagged) : tagged[j].origin = i].edge)).sources ]
      ELSE edges[i] ]

TaggedEdges(tagged) == [ j \in 1..Len(tagged) |-> tagged[j].edge ]

NormalizeWrites(graph, tagged) ==
  [ graph EXCEPT !.edges = SourcesWritten(graph.edges, tagged, DedupEdges(TaggedEdges(tagged))) ]

NormalizeTagged(graph, merge) ==
  FinalOrigins(UpdatedOrigins(graph.edges, merge.node_map),
               EventMediated(UpdatedEdges(graph.edges, merge.node_map), merge.merged_nodes))

\* The graph passed to normalize_graph as the call leaves it.
NormalizeArgAfter(graph) ==
  NormalizeWrites(graph, NormalizeTagged(graph, MergeAliases(ValidNodes(graph.nodes))))

(***************************************************************************)
(* normalize_llm_graph                                                     *)
(***************************************************************************)

\* Inner loop of fix 1, one later Service node: it joins the group of service
\* when it is not processed yet and its label is an alias.
ServiceScan(acc, service, other) ==
  IF other.id \in acc.processed THEN acc
  ELSE IF is_alias(service.label, other.label)
       THEN [ similar |-> Append(acc.similar, other),
              processed |-> acc.processed \cup { other.id } ]
       ELSE acc

\* The group of service_nodes[i] and processed_services after the inner loop.
SimilarTo(service_nodes, i, processed) ==
  LET f[j \in i..Len(service_nodes)] ==
        IF j = i THEN [ similar |-> << service_nodes[i] >>, processed |-> processed ]
        ELSE ServiceScan(f[j-1], service_nodes[i], service_nodes[j])
  IN  f[Len(service_nodes)]

\* The Service node a group of two or more similar services is merged into.
MergedServiceGroup(similar, best_label) ==
  Node(generate_id(best_label, "Service"), "Service", best_label,
       similar[1].attributes, UniqueSources(AllSources(similar)))

MergedService(similar) ==
  MergedServiceGroup(similar, choose_best_label([ i \in 1..Len(similar) |-> similar[i].label ]))

\* merged_services.append(merged), service_map[s.id] = merged.id for every s,
\* processed_services.add(service.id)
RecordService(acc, service, scan, merged) ==
  [ merged_services |-> Append(acc.merged_services, merged),
    service_map     |-> [ x \in { scan.similar[k].id : k \in 1..Len(scan.similar) } |-> merged.id ]
                          @@ acc.service_map,
    processed       |-> scan.processed \cup { service.id } ]

\* A group of one keeps its node as it is.
CloseService(acc, service, scan) ==
  RecordService(acc, service, scan,
                IF Len(scan.similar) > 1 THEN MergedService(scan.similar) ELSE service)

\* One iteration of the outer loop of fix 1.
ServiceStep(acc, service_nodes, i) ==
  IF service_nodes[i].id \in acc.processed THEN acc
  ELSE CloseService(acc, service_nodes[i], SimilarTo(service_nodes, i, acc.processed))

\* Fix 1 over the Service nodes: merged_services and service_map.
MergeServices(service_nodes) ==
  LET f[i \in 0..Len(service_nodes)] ==
        IF i = 0 THEN [ merged_services |-> << >>, service_map |-> << >>, processed |-> {} ]
        ELSE ServiceStep(f[i-1], service_nodes, i)
  IN  f[Len(service_nodes)]

\* Fix 1, one edge: re-pointed through service_map, dropped when it becomes a
\* self-loop.
ServiceEdge(edge, service_map) ==
  LET new_from == IF edge.from_id \in DOMAIN service_map THEN service_map[edge.from_id]
                  ELSE edge.from_id
      new_to   == IF edge.to_id \in DOMAIN service_map THEN service_map[edge.to_id]
                  ELSE edge.to_id
  IN  IF new_from = new_to THEN << >>
      ELSE << Edge(new_from, new_to, edge.relation, edge.sources) >>

ServiceEdges(edges, service_map) ==
  LET f[i \in 0..Len(edges)] ==
        IF i = 0 THEN << >> ELSE f[i-1] \o ServiceEdge(edges[i], service_map)
  IN  f[Len(edges)]

\* nodes = non_service_nodes + merged_services, edges re-pointed.
ServicesMerged(graph, merge) ==
  [ nodes |-> SelectSeq(graph.nodes, LAMBDA n : n.type # "Service") \o merge.merged_services,
    edges |-> ServiceEdges(graph.edges, merge.service_map) ]

\* Fix 1.
DeduplicateServices(graph) ==
  ServicesMerged(graph, MergeServices(SelectSeq(graph.nodes, LAMBDA n : n.type = "Service")))

\* entity_relations.get(id, set()): the relations of the edges leaving id.
EntityRelations(edges, id) ==
  { edges[i].relation : i \in { k \in 1..Len(edges) : edges[k].from_id = id } }

\* A Company node whose relations, has_event and described_in included, are
\* exactly partnered_with.
IsPartnerOnlyOfAll(node, edges) ==
  /\ node.type = "Company"
  /\ EntityRelations(edges, node.id) = { "partnered_with" }

\* A Company node whose relations other than described_in and has_event are
\* exactly partnered_with.
IsPartnerOnly(node, edges) ==
  /\ node.type = "Company"
  /\ EntityRelations(edges, node.id) \ { "described_in", "has_event" } = { "partnered_with" }

PartnerNode(node) ==
  Node(generate_id(node.label, "Partner"), "Partner", node.label, node.attributes, node.sources)

\* Fix 2, one node: a Company always writes its entry of node_type_map, any
\* other node only when its id has none.
ReclassifyNode(acc, node, edges) ==
  IF IsPartnerOnly(node, edges)
  THEN [ nodes |-> Append(acc.nodes, PartnerNode(node)),
         node_type_map |-> (node.id :> PartnerNode(node).id) @@ acc.node_type_map ]
  ELSE IF node.type = "Company"
  THEN [ nodes |-> Append(acc.nodes, node),
         node_type_map |-> (node.id :> node.id) @@ acc.node_type_map ]
  ELSE [ nodes |-> Append(acc.nodes, node),
         node_type_map |-> acc.node_type_map @@ (node.id :> node.id) ]

Reclassify(nodes, edges) ==
  LET f[i \in 0..Len(nodes)] ==
        IF i = 0 THEN [ nodes |-> << >>, node_type_map |-> << >> ]
        ELSE ReclassifyNode(f[i-1], nodes[i], edges)
  IN  f[Len(nodes)]

\* Fix 2, one edge, without the test that both ends are values of the map.
PartnerEdgeAnyEnd(edge, node_type_map) ==
  LET new_from == IF edge.from_id \in DOMAIN node_type_map THEN node_type_map[edge.from_id]
                  ELSE edge.from_id
      new_to   == IF edge.to_id \in DOMAIN node_type_map THEN node_type_map[edge.to_id]
                  ELSE edge.to_id
  IN  IF new_from = new_to THEN << >>
      ELSE << Edge(new_from, new_to, edge.relation, edge.sources) >>

\* Fix 2, one edge: re-pointed through node_type_map, dropped when an end is
\* no value of the map or when it becomes a self-loop.
PartnerEdge(edge, node_type_map) ==
  LET new_from == IF edge.from_id \in DOMAIN node_type_map THEN node_type_map[edge.from_id]
                  ELSE edge.from_id
      new_to   == IF edge.to_id \in DOMAIN node_type_map THEN node_type_map[edge.to_id]
                  ELSE edge.to_id
      values   == { node_type_map[k] : k \in DOMAIN node_type_map }
  IN  IF new_from \notin values \/ new_to \notin values THEN << >>
      ELSE IF new_from = new_to THEN << >>
      ELSE << Edge(new_from, new_to, edge.relation, edge.sources) >>

PartnerEdges(edges, node_type_map) ==
  LET f[i \in 0..Len(edges)] ==
        IF i = 0 THEN << >> ELSE f[i-1] \o PartnerEdge(edges[i], node_type_map)
  IN  f[Len(edges)]

Reclassified(graph, rec) ==
  [ nodes |-> rec.nodes, edges |-> PartnerEdges(graph.edges, rec.node_type_map) ]

\* Fix 2.
ReclassifyPartners(graph) == Reclassified(graph, Reclassify(graph.nodes, graph.edges))

\* Fix 3: the direct edges made redundant by an event-mediated path.
LlmEventMediated(edges, nodes) ==
  LET event_nodes == { nodes[i].id : i \in { k \in 1..Len(nodes) : nodes[k].type = "Event" } }
      idx == 1..Len(edges)
  IN  { << edges[j].from_id, edges[i].to_id, edges[i].relation >> :
          << i, j >> \in { p \in idx \X idx :
                /\ edges[p[1]].from_id \in event_nodes
                /\ edges[p[1]].relation \in { "launched", "acquired" }
                /\ edges[p[2]].to_id = edges[p[1]].from_id
                /\ edges[p[2]].relation = "has_event" } }

LlmFinalEdges(edges, nodes) ==
  LET event_mediated == LlmEventMediated(edges, nodes)
  IN  SelectSeq(edges, LAMBDA e : EdgeKey(e) \notin event_mediated)

\* Edge deduplication, one edge.
LlmDedupEdge(d, edge) ==
  IF ~ Has(d, EdgeKey(edge)) THEN Put(d, EdgeKey(edge), edge)
  ELSE LET existing == Get(d, EdgeKey(edge))
       IN  Put(d, EdgeKey(edge),
               [ existing EXCEPT !.sources = MergeSourceList(existing.sources, edge.sources) ])

LlmDedupEdges(final_edges) ==
  LET f[i \in 0..Len(final_edges)] ==
        IF i = 0 THEN << >> ELSE LlmDedupEdge(f[i-1], final_edges[i])
  IN  f[Len(final_edges)]

\* sorted(nodes, key=(type, label, id))
LlmSortedNodes(nodes) ==
  Sorted(nodes, [ i \in 1..Len(nodes) |-> NodeSortKey(nodes[i]) ])

\* sorted(edge_dict.values(), key=(from_id, relation, to_id))
LlmSortedEdges(edge_values) ==
  Sorted(edge_values, [ i \in 1..Len(edge_values) |-> EdgeSortKey(edge_values[i]) ])

\* Fix 3, the edge deduplication and the sort.
EventFirstSorted(graph) ==
  [ nodes |-> LlmSortedNodes(graph.nodes),
    edges |-> LlmSortedEdges(Values(LlmDedupEdges(LlmFinalEdges(graph.edges, graph.nodes)))) ]

normalize_llm_graph(graph) == EventFirstSorted(ReclassifyPartners(DeduplicateServices(graph)))

\* The edges of fix 1 with the index of the edge of the graph passed whose
\* sources list each shares.
ServiceOrigins(edges, service_map) ==
  LET f[i \in 0..Len(edges)] ==
        IF i = 0 THEN << >>
        ELSE f[i-1] \o [ k \in 1..Len(ServiceEdge(edges[i], service_map)) |->
                           [ origin |-> i, edge |-> ServiceEdge(edges[i], service_map)[k] ] ]
  IN  f[Len(edges)]

\* The edges of fix 2 with the indexes.
PartnerOrigins(tagged, node_type_map) ==
  LET f[j \in 0..Len(tagged)] ==
        IF j = 0 THEN << >>
        ELSE f[j-1] \o [ k \in 1..Len(PartnerEdge(tagged[j].edge, node_type_map)) |->
                           [ origin |-> tagged[j].origin,
                             edge |-> PartnerEdge(tagged[j].edge, node_type_map)[k] ] ]
  IN  f[Len(tagged)]

LlmWrites(graph, tagged) ==
  [ graph EXCEPT !.edges = SourcesWritten(graph.edges, tagged, LlmDedupEdges(TaggedEdges(tagged))) ]

LlmTaggedFinal(tagged, nodes) ==
  FinalOrigins(tagged, LlmEventMediated(TaggedEdges(tagged), nodes))

LlmTagged(graph, merged, rec) ==
  LlmTaggedFinal(PartnerOrigins(ServiceOrigins(graph.edges, merged.service_map),
                                rec.node_type_map), rec.nodes)

LlmTaggedOf(graph, merged, services_merged) ==
  LlmTagged(graph, merged, Reclassify(services_merged.nodes, services_merged.edges))

LlmTaggedFrom(graph, merged) == LlmTaggedOf(graph, merged, ServicesMerged(graph, merged))

\* The graph passed to normalize_llm_graph as the call leaves it.
LlmArgAfter(graph) ==
  LlmWrites(graph, LlmTaggedFrom(graph,
              MergeServices(SelectSeq(graph.nodes, LAMBDA n : n.type = "Service"))))

(***************************************************************************)
(* build_graph as a function of its input                                  *)
(***************************************************************************)

\* The entity records of all chunks in the order the first pass visits them.
Sightings(exts) ==
  LET ents(c) == FieldOr(c.ext, "entities", << >>)
      f[i \in 0..Len(exts)] ==
        IF i = 0 THEN << >>
        ELSE f[i-1] \o [ k \in 1..Len(ents(exts[i])) |->
                           [ chunk_id |-> exts[i].chunk_id, page |-> exts[i].page,
                             ent |-> ents(exts[i])[k] ] ]
  IN  f[Len(exts)]

EntityPass(st, exts) ==
  LET s == Sightings(exts)
      f[i \in 0..Len(s)] ==
        IF i = 0 THEN st ELSE EntitySighting(f[i-1], s[i].chunk_id, s[i].page, s[i].ent)
  IN  f[Len(s)]

ChunkUnlessRaised(st, chunk) == IF st.raised THEN st ELSE RelationChunk(st, chunk)

RelationPass(st, exts) ==
  LET f[i \in 0..Len(exts)] ==
        IF i = 0 THEN st ELSE ChunkUnlessRaised(f[i-1], exts[i])
  IN  f[Len(exts)]

\* The locals of build_graph when it reaches normalize_graph (or has raised).
BuildLocals(exts) ==
  LET st2 == RelationPass(EntityPass(InitLocals, exts), exts)
  IN  IF st2.raised THEN st2 ELSE ProvenancePass(InferencePass(st2, exts), exts)

\* The graph build_graph returns when it does not raise.
build_graph(exts) == normalize_graph(RawGraph(BuildLocals(exts)))

(***************************************************************************)
(* Inputs                                                                  *)
(***************************************************************************)

\* Longest extraction list.
MaxChunks == 2

\* Pages are 1..MaxPage.
MaxPage == 2

\* Two chunk ids that differ only in letter case.
ChunkIds == { "c1", "C1" }

\* Two spellings of one company, a self-referential relation, an acquisition.
ExtA ==
  [ entities  |-> << [ name |-> "TechNova", type |-> "Company", attributes |-> [ founded |-> "2015" ] ],
                     [ name |-> "TechNova Inc.", type |-> "Company" ],
                     [ name |-> "QuantumAI", type |-> "Company", attributes |-> << >> ] >>,
    relations |-> << [ from |-> "TechNova Inc.", to |-> "QuantumAI", relation |-> "acquired" ],
                     [ from |-> "TechNova", to |-> "TechNova Inc.", relation |-> "partnered_with" ] >>,
    events    |-> << [ name |-> "Acq", type |-> "Acquisition", year |-> 2023,
                       company |-> "TechNova", related_to |-> "QuantumAI", tags |-> << "deal" >> ] >> ]

\* A higher-precedence sighting, an unknown verb, the acquisition without a year.
ExtB ==
  [ entities  |-> << [ name |-> "TechNova", type |-> "Platform", attributes |-> [ founded |-> "2016" ] ],
                     [ name |-> "QuantumAI", type |-> "Company" ] >>,
    relations |-> << [ from |-> "TechNova", to |-> "QuantumAI", relation |-> "likes" ] >>,
    events    |-> << [ name |-> "Acq", type |-> "Acquisition",
                       company |-> "TechNova Inc.", related_to |-> "QuantumAI" ] >> ]

\* One Service, one Platform and an integration verb; no events list.
ExtC ==
  [ entities  |-> << [ name |-> "Nimbus", type |-> "Company", attributes |-> [ hq |-> "Oslo" ] ],
                     [ name |-> "Analytics", type |-> "Service" ],
                     [ name |-> "NovaCloud", type |-> "Platform" ] >>,
    relations |-> << [ from |-> "Nimbus", to |-> "Analytics", relation |-> "offers" ],
                     [ from |-> "Nimbus", to |-> "NovaCloud", relation |-> "integrated_with" ] >> ]

\* An alias of Nimbus with the same relation, and a relation between the aliases.
ExtD ==
  [ entities  |-> << [ name |-> "Nimbus Solutions", type |-> "Company" ],
                     [ name |-> "Analytics", type |-> "Service" ] >>,
    relations |-> << [ from |-> "Nimbus Solutions", to |-> "Analytics", relation |-> "offers" ],
                     [ from |-> "Nimbus Solutions", to |-> "Nimbus", relation |-> "partnered_with" ] >>,
    events    |-> << >> ]

\* A lower-precedence sighting, a sentence fragment, a launch and a milestone.
ExtE ==
  [ entities  |-> << [ name |-> "NovaCloud", type |-> "Company" ],
                     [ name |-> "Launched", type |-> "Company" ],
                     [ name |-> "Nimbus", type |-> "Company" ] >>,
    relations |-> << [ from |-> "Launched", to |-> "NovaCloud", relation |-> "operates" ],
                     [ from |-> "Nimbus", to |-> "NovaCloud" ] >>,
    events    |-> << [ name |-> "NovaCloud launch", type |-> "Launch", year |-> 2020,
                       company |-> "Nimbus", related_to |-> "NovaCloud" ],
                     [ name |-> "Listing", type |-> "Milestone", year |-> 0,
                       company |-> "Nimbus", related_to |-> "Nimbus" ] >> ]

\* An entity named like the id of a Source node, and an event named like an entity.
ExtF ==
  [ entities  |-> << [ name |-> "NovaCloud", type |-> "Platform" ],
                     [ name |-> "source_c1", type |-> "Company" ],
                     [ name |-> "Orbit", type |-> "Product" ] >>,
    events    |-> << [ name |-> "NovaCloud", type |-> "Launch", year |-> 2021,
                       company |-> "Nimbus", related_to |-> "Orbit" ] >> ]

\* An entity named like the id of an event of the same chunk.
ExtG ==
  [ entities  |-> << [ name |-> "event_acq", type |-> "Company" ] >>,
    events    |-> << [ name |-> "Acq", type |-> "Acquisition" ] >> ]

\* A higher-precedence sighting with an alias of the same type, and an event
\* whose company is named by the other spelling.
ExtH ==
  [ entities  |-> << [ name |-> "TechNova", type |-> "Platform" ],
                     [ name |-> "TechNova Group", type |-> "Platform" ] >>,
    events    |-> << [ name |-> "Buyout", type |-> "Acquisition", year |-> 2024,
                       company |-> "TechNova Inc.", related_to |-> "QuantumAI" ] >> ]

\* A Service with an integration verb and no Platform of its own.
ExtI ==
  [ entities  |-> << [ name |-> "Analytics", type |-> "Service" ] >>,
    relations |-> << [ from |-> "Analytics", to |-> "Gateway", relation |-> "integrated_with" ] >> ]

\* A company that only partners, next to a Partner whose name differs from
\* its own by letter case only.
ExtJ ==
  [ entities  |-> << [ name |-> "Globex", type |-> "Company" ],
                     [ name |-> "globex", type |-> "Partner" ],
                     [ name |-> "Orbit", type |-> "Product" ] >>,
    relations |-> << [ from |-> "Globex", to |-> "Orbit", relation |-> "partnered_with" ] >> ]

Extractions == { ExtA, ExtB, ExtC, ExtD, ExtE, ExtF, ExtG, ExtH, ExtI, ExtJ }

Chunks ==
  { [ chunk_id |-> c, page |-> p, ext |-> x ] :
      c \in ChunkIds, p \in 1..MaxPage, x \in Extractions }

\* The extraction lists build_graph is called with.
Inputs == UNION { [ 1..n -> Chunks ] : n \in 0..MaxChunks }

(***************************************************************************)
(* One call of build_graph, step by step                                   *)
(***************************************************************************)

VARIABLES
  extractions,          \* the argument of the call
  pc,                   \* "building", "inferred", "raw", "done" or "raised"
  si,                   \* first pass: index of the next sighting
  ci,                   \* second pass: index of the next chunk
  label_to_node, normalized_to_label, name_to_id, edge_dict, chunk_entities,
  graph,                \* the graph returned
  fn,                   \* the normalizer called on its own, "" before the call
  arg,                  \* the graph passed to it, as the call has left it so far
  fpc,                  \* "idle", "called", "services", "partners" or "returned"
  ret                   \* its nodes and edges so far, at the end the graph returned

call_vars == << fn, arg, fpc, ret >>

vars == << extractions, pc, si, ci, label_to_node, normalized_to_label, name_to_id,
           edge_dict, chunk_entities, graph, fn, arg, fpc, ret >>

EmptyGraph == [ nodes |-> << >>, edges |-> << >> ]

Locals ==
  [ label_to_node       |-> label_to_node,
    normalized_to_label |-> normalized_to_label,
    name_to_id          |-> name_to_id,
    edge_dict           |-> edge_dict,
    chunk_entities      |-> chunk_entities,
    raised              |-> pc = "raised" ]

SetLocals(st) ==
  /\ label_to_node' = st.label_to_node
  /\ normalized_to_label' = st.normalized_to_label
  /\ name_to_id' = st.name_to_id
  /\ edge_dict' = st.edge_dict
  /\ chunk_entities' = st.chunk_entities

Init ==
  /\ extractions \in Inputs
  /\ pc = "building"
  /\ si = 1
  /\ ci = 1
  /\ label_to_node = InitLocals.label_to_node
  /\ normalized_to_label = InitLocals.normalized_to_label
  /\ name_to_id = InitLocals.name_to_id
  /\ edge_dict = InitLocals.edge_dict
  /\ chunk_entities = InitLocals.chunk_entities
  /\ graph = [ nodes |-> << >>, edges |-> << >> ]
  /\ fn = ""
  /\ arg = EmptyGraph
  /\ fpc = "idle"
  /\ ret = EmptyGraph

\* First pass, one entity record.
EntityStep ==
  /\ pc = "building"
  /\ si <= Len(Sightings(extractions))
  /\ LET s == Sightings(extractions)[si]
     IN  SetLocals(EntitySighting(Locals, s.chunk_id, s.page, s.ent))
  /\ si' = si + 1
  /\ UNCHANGED << extractions, pc, ci, graph >>
  /\ UNCHANGED call_vars

\* Second pass, one chunk: its relations and its events.
RelationStep ==
  /\ pc = "building"
  /\ si > Len(Sightings(extractions))
  /\ ci <= Len(extractions)
  /\ LET st == RelationChunk(Locals, extractions[ci])
     IN  /\ SetLocals(st)
         /\ pc' = IF st.raised THEN "raised" ELSE "building"
  /\ ci' = ci + 1
  /\ UNCHANGED << extractions, si, graph >>
  /\ UNCHANGED call_vars

\* Third pass: integration inference over all chunks.
InferenceStep ==
  /\ pc = "building"
  /\ si > Len(Sightings(extractions))
  /\ ci > Len(extractions)
  /\ SetLocals(InferencePass(Locals, extractions))
  /\ pc' = "inferred"
  /\ UNCHANGED << extractions, si, ci, graph >>
  /\ UNCHANGED call_vars

\* Fourth pass: Source nodes and described_in edges.
ProvenanceStep ==
  /\ pc = "inferred"
  /\ SetLocals(ProvenancePass(Locals, extractions))
  /\ pc' = "raw"
  /\ UNCHANGED << extractions, si, ci, graph >>
  /\ UNCHANGED call_vars

\* return normalize_graph(raw_graph)
NormalizeStep ==
  /\ pc = "raw"
  /\ graph' = normalize_graph(RawGraph(Locals))
  /\ pc' = "done"
  /\ UNCHANGED << extractions, si, ci, label_to_node, normalized_to_label, name_to_id,
                  edge_dict, chunk_entities >>
  /\ UNCHANGED call_vars

\* The application in its LLM mode: graph = normalize_llm_graph(graph)
LlmModeStep ==
  /\ pc = "done"
  /\ fpc = "idle"
  /\ fn' = "normalize_llm_graph"
  /\ arg' = LlmArgAfter(graph)
  /\ ret' = normalize_llm_graph(graph)
  /\ fpc' = "returned"
  /\ UNCHANGED << extractions, pc, si, ci, label_to_node, normalized_to_label, name_to_id,
                  edge_dict, chunk_entities, graph >>

Next ==
  \/ EntityStep
  \/ RelationStep
  \/ InferenceStep
  \/ ProvenanceStep
  \/ NormalizeStep
  \/ LlmModeStep

Spec == Init /\ [][Next]_vars

\* The step-by-step run returns what build_graph computes as a function.
RunMatchesFunction == pc = "done" => graph = build_graph(extractions)

(***************************************************************************)
(* One call of normalize_graph or normalize_llm_graph on a graph           *)
(***************************************************************************)

\* Longest node list and longest edge list of the graph passed.
MaxNodes == 3

MaxEdges == 3

SrcA == [ chunk_id |-> "c1", page |-> 1 ]

SrcB == [ chunk_id |-> "c2", page |-> 2 ]

\* Two similar services with labels of one length and a third similar to one
\* of them only, a company, a company that only partners and an event.
NodePool ==
  { Node("service_data_hub", "Service", "Data Hub", [ tier |-> "basic" ], << SrcA >>),
    Node("service_datahubs", "Service", "DataHubs", << >>, << SrcA, SrcB >>),
    Node("company_acme", "Company", "Acme", [ hq |-> "Oslo" ], << SrcA >>),
    Node("company_globex", "Company", "Globex", << >>, << SrcB >>),
    Node("event_acq", "Event", "Acq", [ type |-> "Acquisition" ], << SrcA >>),
    Node("service_hubs", "Service", "Hubs", [ tier |-> "full", plan |-> "yearly" ], << SrcB >>) }

\* Edges that collapse when the services merge, a partnership, an acquisition
\* with and without its event, an unknown verb.
EdgePool ==
  { Edge("company_acme", "service_data_hub", "offers", << SrcA >>),
    Edge("company_acme", "service_datahubs", "offers", << SrcB >>),
    Edge("service_data_hub", "service_datahubs", "integrated_with", << SrcA >>),
    Edge("company_globex", "company_acme", "partnered_with", << SrcB >>),
    Edge("company_globex", "event_acq", "has_event", << SrcA >>),
    Edge("event_acq", "company_acme", "acquired", << SrcA >>),
    Edge("company_globex", "company_acme", "acquired", << SrcB >>),
    Edge("company_acme", "company_globex", "likes", << SrcA >>) }

\* The lists of at most n different members of a set.
ListsOf(S, n) ==
  UNION { { f \in [ 1..k -> S ] : \A i, j \in 1..k : i # j => f[i] # f[j] } : k \in 0..n }

Graphs ==
  { [ nodes |-> ns, edges |-> es ] : ns \in ListsOf(NodePool, MaxNodes),
                                     es \in ListsOf(EdgePool, MaxEdges) }

CallInit ==
  /\ extractions = << >>
  /\ pc = "idle"
  /\ si = 1
  /\ ci = 1
  /\ label_to_node = InitLocals.label_to_node
  /\ normalized_to_label = InitLocals.normalized_to_label
  /\ name_to_id = InitLocals.name_to_id
  /\ edge_dict = InitLocals.edge_dict
  /\ chunk_entities = InitLocals.chunk_entities
  /\ graph = EmptyGraph
  /\ fn = ""
  /\ arg \in Graphs
  /\ fpc = "called"
  /\ ret = EmptyGraph

build_vars == << extractions, pc, si, ci, label_to_node, normalized_to_label, name_to_id,
                edge_dict, chunk_entities, graph >>

\* normalize_graph(arg)
CallNormalizeGraph ==
  /\ fpc = "called"
  /\ fn' = "normalize_graph"
  /\ ret' = normalize_graph(arg)
  /\ arg' = NormalizeArgAfter(arg)
  /\ fpc' = "returned"
  /\ UNCHANGED build_vars

\* normalize_llm_graph(arg), fix 1: similar Service nodes are merged.
LlmServiceStep ==
  /\ fpc = "called"
  /\ fn' = "normalize_llm_graph"
  /\ ret' = DeduplicateServices(arg)
  /\ fpc' = "services"
  /\ UNCHANGED << arg, build_vars >>

\* Fix 2: Company nodes that only partner become Partner nodes.
LlmPartnerStep ==
  /\ fpc = "services"
  /\ ret' = ReclassifyPartners(ret)
  /\ fpc' = "partners"
  /\ UNCHANGED << fn, arg, build_vars >>

\* Fix 3, edge deduplication, sort and return.
LlmReturnStep ==
  /\ fpc = "partners"
  /\ ret' = EventFirstSorted(ret)
  /\ arg' = LlmArgAfter(arg)
  /\ fpc' = "returned"
  /\ UNCHANGED << fn, build_vars >>

CallNext ==
  \/ CallNormalizeGraph
  \/ LlmServiceStep
  \/ LlmPartnerStep
  \/ LlmReturnStep

CallSpec == CallInit /\ [][CallNext]_vars

\* The step-by-step run returns what normalize_llm_graph computes as a function.
LlmRunMatchesFunction ==
  fpc = "returned" /\ fn = "normalize_llm_graph" => ret = normalize_llm_graph(arg)

(***************************************************************************)
(* Vocabulary of the properties                                            *)
(***************************************************************************)

Returned == pc = "done"

\* The first pass has consumed every entity record, the second has not begun.
EntityPassDone == pc = "building" /\ si > Len(Sightings(extractions)) /\ ci = 1

Range(seq) == { seq[i] : i \in 1..Len(seq) }

RawNodes == Values(label_to_node)

RawEdges == Values(edge_dict)

\* old id -> new id, as normalize_graph computes it from the raw nodes.
NodeMap == MergeAliases(ValidNodes(RawNodes)).node_map

\* The raw edges whose two endpoints are nodes of the returned graph, each
\* with the key re-pointing gives it.
Repointed ==
  LET nm     == NodeMap
      values == { nm[k] : k \in DOMAIN nm }
      to(id) == IF id \in DOMAIN nm THEN nm[id] ELSE id
  IN  { [ raw |-> e, key |-> << to(e.from_id), to(e.to_id), e.relation >> ] :
          e \in { r \in Range(RawEdges) : to(r.from_id) \in values /\ to(r.to_id) \in values } }

GraphKeys == { EdgeKey(e) : e \in Range(graph.edges) }

SourceKeys(sources) == { << sources[i].chunk_id, sources[i].page >> : i \in 1..Len(sources) }

(***************************************************************************)
(* C1  build_graph is independent of chunk arrival order: every            *)
(* permutation of the extraction list gives the same sorted nodes (id,     *)
(* type, label, attributes) and the same sorted edge triples.              *)
(***************************************************************************)
ChunkOrders(n) == { f \in [ 1..n -> 1..n ] : \A i, j \in 1..n : f[i] = f[j] => i = j }

Permuted(exts, f) == [ i \in 1..Len(exts) |-> exts[f[i]] ]

Projection(g) ==
  [ nodes |-> [ i \in 1..Len(g.nodes) |->
                  << g.nodes[i].id, g.nodes[i].type, g.nodes[i].label, g.nodes[i].attributes >> ],
    edges |-> [ i \in 1..Len(g.edges) |-> EdgeKey(g.edges[i]) ] ]

\* C1: the graph returned for any permutation of the extraction list has the
\* same sorted nodes and the same sorted edge triples as the graph returned.
C1_OrderIndependent ==
  Returned =>
    \A f \in ChunkOrders(Len(extractions)) :
       Projection(build_graph(Permuted(extractions, f))) = Projection(graph)

(***************************************************************************)
(* C2  After the entity pass every name of the name->id index maps to the  *)
(* current id of the canonical node of its normalization key, and that id  *)
(* is the id of a node of the graph under construction.                    *)
(***************************************************************************)
CanonicalNode(name) == Get(label_to_node, normalized_to_label[normalize_entity_label(name)])

\* C2: at the end of the entity pass every indexed name maps to the current id
\* of its canonical node, which is the id of a node under construction.
C2_IndexIsCurrent ==
  EntityPassDone =>
    \A name \in DOMAIN name_to_id :
       /\ name_to_id[name] = CanonicalNode(name).id
       /\ \E n \in Range(RawNodes) : n.id = name_to_id[name]

(***************************************************************************)
(* C3  In the returned graph, when c -has_event-> e and e -launched or     *)
(* acquired-> t both exist and e is an Event node, there is no direct edge *)
(* c -> t with that relation.                                              *)
(***************************************************************************)
IsEventNode(id) == \E n \in Range(graph.nodes) : n.id = id /\ n.type = "Event"

\* C3: in the returned graph no direct edge c -> t duplicates a path
\* c -has_event-> e -launched/acquired-> t through an Event node e.
C3_EventFirst ==
  Returned =>
    \A x, y \in Range(graph.edges) :
       ( /\ x.relation = "has_event"
         /\ y.from_id = x.to_id
         /\ y.relation \in { "launched", "acquired" }
         /\ IsEventNode(y.from_id) )
       => << x.from_id, y.to_id, y.relation >> \notin GraphKeys

\* A direct edge was built, and the returned graph has the mediated path.
C3_Witness ==
  /\ Returned
  /\ \E x, y \in Range(graph.edges) :
       /\ x.relation = "has_event" /\ y.from_id = x.to_id
       /\ y.relation \in { "launched", "acquired" } /\ IsEventNode(y.from_id)
       /\ \E r \in Repointed : r.key = << x.from_id, y.to_id, y.relation >>

(***************************************************************************)
(* C4  An event name seen in several chunks has one Event node whose       *)
(* sources hold the (chunk_id, page) of every chunk that mentioned it, and *)
(* whose year is that of the last sighting that provided one.              *)
(***************************************************************************)
EventSightings ==
  LET evs(c) == FieldOr(c.ext, "events", << >>)
      f[i \in 0..Len(extractions)] ==
        IF i = 0 THEN << >>
        ELSE f[i-1] \o [ k \in 1..Len(evs(extractions[i])) |->
                           [ chunk_id |-> extractions[i].chunk_id,
                             page |-> extractions[i].page, ev |-> evs(extractions[i])[k] ] ]
  IN  f[Len(extractions)]

\* The year the sightings of one event name leave: the first sighting's,
\* then overwritten by each later sighting that provides a year.
ExpectedYear(name) ==
  LET es == EventSightings
      step(acc, ev) ==
        IF ev.name # name THEN acc
        ELSE IF ~ acc.seen THEN [ seen |-> TRUE, year |-> OptInt(ev, "year") ]
        ELSE IF Truthy(OptInt(ev, "year")) THEN [ seen |-> TRUE, year |-> OptInt(ev, "year") ]
        ELSE acc
      f[i \in 0..Len(es)] ==
        IF i = 0 THEN [ seen |-> FALSE, year |-> << >> ] ELSE step(f[i-1], es[i].ev)
  IN  f[Len(es)].year

\* C4: every sighting of an event finds, in the returned graph, exactly one
\* Event node of its id that has the sighting's (chunk_id, page) among its
\* sources and the year left by the sightings that provided one.
C4_EventMerged ==
  Returned =>
    \A s \in Range(EventSightings) :
       LET nodes == { n \in Range(graph.nodes) :
                        n.type = "Event" /\ n.id = "event_" \o normalize_name(s.ev.name) }
       IN  /\ Cardinality(nodes) = 1
           /\ \A n \in nodes :
                /\ << s.chunk_id, s.page >> \in SourceKeys(n.sources)
                /\ n.attributes.year = ExpectedYear(s.ev.name)

(***************************************************************************)
(* C5  No edge of the returned graph is a self-loop.                       *)
(***************************************************************************)
\* C5: from_id differs from to_id for every edge of the returned graph.
C5_NoSelfLoop ==
  Returned => \A e \in Range(graph.edges) : e.from_id # e.to_id

\* An edge between two distinct raw nodes that alias resolution merged.
C5_Witness ==
  /\ Returned
  /\ \E r \in Repointed : r.raw.from_id # r.raw.to_id /\ r.key[1] = r.key[2]

(***************************************************************************)
(* C6  Every edge of the returned graph has a relation of the controlled   *)
(* vocabulary.                                                             *)
(***************************************************************************)
\* C6: the relation of every edge of the returned graph is in CONTROLLED_RELATIONS.
C6_RelationClosure ==
  Returned => \A e \in Range(graph.edges) : e.relation \in CONTROLLED_RELATIONS

\* A raw edge between two surviving, distinct nodes carried the fallback relation.
C6_Witness ==
  /\ Returned
  /\ \E r \in Repointed : r.key[3] = "related_to" /\ r.key[1] # r.key[2]

(***************************************************************************)
(* C7  No two edges of the returned graph share (from_id, to_id,           *)
(* relation); the raw edges that re-pointing makes equal are one edge      *)
(* whose sources are the union of theirs.                                  *)
(***************************************************************************)
\* C7: the edges of the returned graph have pairwise different keys, and the
\* sources of each are the union of the sources of the raw edges re-pointed to it.
C7_EdgeUnique ==
  Returned =>
    /\ \A i, j \in 1..Len(graph.edges) :
         EdgeKey(graph.edges[i]) = EdgeKey(graph.edges[j]) => i = j
    /\ LET rp == Repointed
       IN  \A e \in Range(graph.edges) :
              SourceKeys(e.sources)
                = UNION { SourceKeys(r.raw.sources) : r \in { q \in rp : q.key = EdgeKey(e) } }

\* Two raw edges with different sources became one edge of the graph.
C7_Witness ==
  /\ Returned
  /\ \E r1, r2 \in Repointed :
       /\ r1.key = r2.key
       /\ r1.key \in GraphKeys
       /\ EdgeKey(r1.raw) # EdgeKey(r2.raw)
       /\ SourceKeys(r1.raw.sources) # SourceKeys(r2.raw.sources)

(***************************************************************************)
(* C8  No node and no edge of the returned graph has two source records    *)
(* with the same (chunk_id, page).                                         *)
(***************************************************************************)
NoDuplicateSource(sources) ==
  \A i, j \in 1..Len(sources) :
     << sources[i].chunk_id, sources[i].page >> = << sources[j].chunk_id, sources[j].page >>
       => i = j

\* C8: the sources of every node and edge of the returned graph hold each
\* (chunk_id, page) at most once.
C8_SourcesUnique ==
  Returned =>
    /\ \A n \in Range(graph.nodes) : NoDuplicateSource(n.sources)
    /\ \A e \in Range(graph.edges) : NoDuplicateSource(e.sources)

\* One chunk sighted the same normalization key twice, and a relation twice.
C8_Witness ==
  /\ Returned
  /\ \E i, j \in 1..Len(Sightings(extractions)) :
       /\ i < j
       /\ Sightings(extractions)[i].chunk_id = Sightings(extractions)[j].chunk_id
       /\ Sightings(extractions)[i].page = Sightings(extractions)[j].page
       /\ normalize_entity_label(Strip(Sightings(extractions)[i].ent.name))
            = normalize_entity_label(Strip(Sightings(extractions)[j].ent.name))
  /\ \E i, j \in 1..Len(extractions) :
       /\ i < j
       /\ extractions[i] = extractions[j]
       /\ FieldOr(extractions[i].ext, "relations", << >>) # << >>
  /\ \E n \in Range(graph.nodes) : n.type # "Source" /\ Len(n.sources) = 1

(***************************************************************************)
(* C9  During the entity pass the precedence rank of a canonical node's    *)
(* type never decreases, and a node of type Platform keeps its type and    *)
(* its id.                                                                 *)
(***************************************************************************)
\* C9: a step of the entity pass never lowers the precedence rank of a
\* canonical node's type, and leaves the type and id of a Platform node alone.
C9_RankMonotone ==
  [][ si' = si + 1 =>
        \A k \in DOMAIN normalized_to_label :
           LET old == Get(label_to_node, normalized_to_label[k])
               new == Get(label_to_node', normalized_to_label'[k])
           IN  /\ TYPE_PRECEDENCE(new.type) >= TYPE_PRECEDENCE(old.type)
               /\ old.type = "Platform" => new.type = "Platform" /\ new.id = old.id ]_vars

\* A Platform node has been sighted again with a lower-precedence type.
C9_Witness ==
  /\ pc = "building"
  /\ \E i, j \in 1..(si - 1) :
       LET s == Sightings(extractions)
       IN  /\ i < j
           /\ normalize_entity_label(Strip(s[i].ent.name)) = normalize_entity_label(Strip(s[j].ent.name))
           /\ s[i].ent.type = "Platform"
           /\ TYPE_PRECEDENCE(s[j].ent.type) < TYPE_PRECEDENCE("Platform")
           /\ CanonicalNode(Strip(s[j].ent.name)).type = "Platform"

(***************************************************************************)
(* C10 The returned graph has exactly one Source node per distinct         *)
(* chunk_id, with id "source_" + chunk_id and attributes {chunk_id, page,  *)
(* document}; Source nodes are never merged and their ids never rewritten. *)
(***************************************************************************)
InputChunkIds == { extractions[i].chunk_id : i \in 1..Len(extractions) }

\* The page of the first chunk with this id.
FirstPage(c) ==
  extractions[CHOOSE i \in 1..Len(extractions) :
                /\ extractions[i].chunk_id = c
                /\ \A j \in 1..(i-1) : extractions[j].chunk_id # c].page

SourceNodeIndexes == { i \in 1..Len(graph.nodes) : graph.nodes[i].type = "Source" }

\* C10: the returned graph has as many Source nodes as the input has chunk
\* ids, one with id "source_" + chunk_id and attributes {chunk_id, page,
\* document} for each.
C10_OneSourcePerChunk ==
  Returned =>
    /\ Cardinality(SourceNodeIndexes) = Cardinality(InputChunkIds)
    /\ \A c \in InputChunkIds :
         \E i \in SourceNodeIndexes :
            /\ graph.nodes[i].id = "source_" \o c
            /\ graph.nodes[i].attributes =
                 [ chunk_id |-> c, page |-> FirstPage(c), document |-> DocumentName ]

(***************************************************************************)
(* C11 In the returned graph every node of a core type has, for each of    *)
(* its source records, a described_in edge to the Source node of that      *)
(* record's chunk.                                                         *)
(***************************************************************************)
IsSourceNode(id) == \E n \in Range(graph.nodes) : n.id = id /\ n.type = "Source"

\* C11: every core-type node of the returned graph has, for every one of its
\* (chunk_id, page) records, a described_in edge to a Source node that carries
\* the record.
C11_DescribedIn ==
  Returned =>
    \A n \in Range(graph.nodes) :
       n.type \in core_types =>
         \A k \in SourceKeys(n.sources) :
            \E e \in Range(graph.edges) :
               /\ e.from_id = n.id
               /\ e.relation = "described_in"
               /\ IsSourceNode(e.to_id)
               /\ k \in SourceKeys(e.sources)

(***************************************************************************)
(* C12 Every entity record whose name is not an invalid entity name is     *)
(* represented in the returned graph by a non-Source node that has the     *)
(* record's (chunk_id, page) among its sources and whose label is the      *)
(* record's name or an alias of it.                                        *)
(***************************************************************************)
\* The label stands for the name: equal, of the same normalization key, or an alias.
LabelOf(label, name) ==
  \/ label = name
  \/ normalize_entity_label(label) = normalize_entity_label(name)
  \/ is_alias(label, name)

\* C12: every entity record with a valid name has, in the returned graph, a
\* non-Source node with the record's (chunk_id, page) among its sources and a
\* label that is the record's name or an alias of it.
C12_EntityKept ==
  Returned =>
    \A s \in Range(Sightings(extractions)) :
       ~ is_invalid_entity_name(Strip(s.ent.name)) =>
         \E n \in Range(graph.nodes) :
            /\ n.type # "Source"
            /\ << s.chunk_id, s.page >> \in SourceKeys(n.sources)
            /\ LabelOf(n.label, Strip(s.ent.name))

(***************************************************************************)
(* C13 A name sighted with several types ends the entity pass as one node  *)
(* whose type is the highest-precedence type sighted, whose label is       *)
(* unchanged and whose id is recomputed from the label and that type.      *)
(***************************************************************************)
SightingKey(s) == normalize_entity_label(Strip(s.ent.name))

SightingType(s) == FieldOr(s.ent, "type", "Entity")

\* The type the sightings of one key leave: that of the earliest sighting
\* whose precedence no other sighting of the key exceeds.
HighestType(ss, k) ==
  LET idx == { i \in 1..Len(ss) : SightingKey(ss[i]) = k }
      top == { i \in idx : \A j \in idx : TYPE_PRECEDENCE(SightingType(ss[j]))
                                              <= TYPE_PRECEDENCE(SightingType(ss[i])) }
  IN  SightingType(ss[CHOOSE i \in top : \A j \in top : i <= j])

\* The name of the first sighting of a key.
FirstName(ss, k) ==
  Strip(ss[CHOOSE i \in 1..Len(ss) :
             /\ SightingKey(ss[i]) = k
             /\ \A j \in 1..(i-1) : SightingKey(ss[j]) # k].ent.name)

LegalSuffixes == { "Inc", "Corp", "LLC", "Ltd", "Co", "Corporation" }

\* The name with one trailing legal suffix, and its period, removed.
WithoutSuffix(name) ==
  LET cut == { i \in 1..Len(name) :
                 \E suf \in LegalSuffixes, dot \in { "", "." } :
                    SubSeq(name, i, Len(name)) = " " \o suf \o dot }
  IN  IF cut = {} THEN name
      ELSE Strip(SubSeq(name, 1, (CHOOSE i \in cut : TRUE) - 1))

\* The key of label_to_node under which the entity pass files a sighting.
NodeOfSighting(s) == normalized_to_label[normalize_entity_label(Strip(s.ent.name))]

\* C14: when the entity pass ends, two entity records are filed under the same
\* node exactly when their names are equal once a trailing legal suffix is
\* removed, and label_to_node has one node per such name.
C14_OneNodePerKey ==
  EntityPassDone =>
    LET ss == Sightings(extractions)
    IN  /\ \A i, j \in 1..Len(ss) :
             ( WithoutSuffix(Strip(ss[i].ent.name)) = WithoutSuffix(Strip(ss[j].ent.name)) )
               <=> ( NodeOfSighting(ss[i]) = NodeOfSighting(ss[j]) )
        /\ \A i \in 1..Len(ss) : Has(label_to_node, NodeOfSighting(ss[i]))
        /\ Len(label_to_node)
             = Cardinality({ WithoutSuffix(Strip(ss[i].ent.name)) : i \in 1..Len(ss) })

\* Two chunks both mention "TechNova Inc." and "TechNova", and the pass has
\* exactly one Company node for them.
C14_Witness ==
  /\ EntityPassDone
  /\ LET ss == Sightings(extractions)
     IN  \E i, j, k, l \in 1..Len(ss) :
            /\ ss[i].chunk_id # ss[k].chunk_id \/ ss[i].page # ss[k].page
            /\ ss[i].chunk_id = ss[j].chunk_id /\ ss[i].page = ss[j].page
            /\ ss[k].chunk_id = ss[l].chunk_id /\ ss[k].page = ss[l].page
            /\ ss[i].ent.name = "TechNova Inc." /\ ss[j].ent.name = "TechNova"
            /\ ss[k].ent.name = "TechNova Inc." /\ ss[l].ent.name = "TechNova"
  /\ Cardinality({ i \in 1..Len(label_to_node) :
                     /\ label_to_node[i].v.type = "Company"
                     /\ WithoutSuffix(label_to_node[i].v.label) = "TechNova" }) = 1

(***************************************************************************)
(* C15 A Launch or Acquisition event whose company and related entity      *)
(* resolve to distinct entities is in the returned graph as                *)
(* company -has_event-> Event -launched/acquired-> related, without a      *)
(* direct company -> related edge of that relation.                        *)
(***************************************************************************)
\* The event record names a company and a related entity that the index
\* resolves to two ids, and none of the three names is an invalid name.
MediatedEvent(ev) ==
  LET c == FieldOr(ev, "company", None)
      r == FieldOr(ev, "related_to", None)
  IN  /\ FieldOr(ev, "type", None) \in { "Launch", "Acquisition" }
      /\ c \in DOMAIN name_to_id /\ r \in DOMAIN name_to_id
      /\ name_to_id[c] # name_to_id[r]
      /\ ~ is_invalid_entity_name(c) /\ ~ is_invalid_entity_name(r)
      /\ ~ is_invalid_entity_name(ev.name)

\* C15: for every such event record the returned graph has nodes for the
\* company, the event and the related entity, the edges company -has_event->
\* event and event -launched/acquired-> related, and no direct edge
\* company -> related with that relation.
C15_EventEdges ==
  Returned =>
    \A s \in Range(EventSightings) :
       MediatedEvent(s.ev) =>
         \E nc, ne, nr \in Range(graph.nodes) :
            /\ nc.type \notin { "Source", "Event" } /\ LabelOf(nc.label, s.ev.company)
            /\ nr.type \notin { "Source", "Event" } /\ LabelOf(nr.label, s.ev.related_to)
            /\ ne.type = "Event" /\ LabelOf(ne.label, s.ev.name)
            /\ << nc.id, ne.id, "has_event" >> \in GraphKeys
            /\ << ne.id, nr.id, EventRelation(s.ev.type) >> \in GraphKeys
            /\ << nc.id, nr.id, EventRelation(s.ev.type) >> \notin GraphKeys

(***************************************************************************)
(* C16 A relation or event record that names an entity the index does not  *)
(* resolve raises no error and contributes no node and no edge.            *)
(***************************************************************************)
\* What a call of build_graph ends with: an exception or the graph returned.
Outcome(exts) ==
  IF BuildLocals(exts).raised
  THEN [ raised |-> TRUE, graph |-> [ nodes |-> << >>, edges |-> << >> ] ]
  ELSE [ raised |-> FALSE, graph |-> build_graph(exts) ]

\* The call has ended, one way or the other.
Ended == pc \in { "done", "raised" }

ActualOutcome == [ raised |-> pc = "raised", graph |-> graph ]

RemoveAt(seq, k) == SubSeq(seq, 1, k - 1) \o SubSeq(seq, k + 1, Len(seq))

WithoutRelation(exts, i, k) == [ exts EXCEPT ![i].ext.relations = RemoveAt(@, k) ]

WithoutEvent(exts, i, k) == [ exts EXCEPT ![i].ext.events = RemoveAt(@, k) ]

Unresolved(name) == name # None /\ name \notin DOMAIN name_to_id

\* The event record without the names the index does not resolve.
ResolvedPart(ev) ==
  [ f \in DOMAIN ev \ { g \in { "company", "related_to" } \cap DOMAIN ev : Unresolved(ev[g]) }
      |-> ev[f] ]

WithResolvedPart(exts, i, k) == [ exts EXCEPT ![i].ext.events[k] = ResolvedPart(@) ]

\* Positions <<chunk, record>> of the relation records with an unresolved endpoint.
UnresolvedRelations ==
  UNION { { << i, k >> : k \in { j \in 1..Len(FieldOr(extractions[i].ext, "relations", << >>)) :
                                   \/ Unresolved(Strip(extractions[i].ext.relations[j].from))
                                   \/ Unresolved(Strip(extractions[i].ext.relations[j].to)) } } :
          i \in 1..Len(extractions) }

\* Positions <<chunk, record>> of the event records with an unresolved name.
UnresolvedEvents ==
  UNION { { << i, k >> : k \in { j \in 1..Len(FieldOr(extractions[i].ext, "events", << >>)) :
                                   \/ Unresolved(FieldOr(extractions[i].ext.events[j], "company", None))
                                   \/ Unresolved(FieldOr(extractions[i].ext.events[j], "related_to", None)) } } :
          i \in 1..Len(extractions) }

IntegrationSignal(p) ==
  FieldOr(extractions[p[1]].ext.relations[p[2]], "relation", None) = "integrated_with"

\* The edge is an integration edge from a Service to a Platform, the kind the
\* inference pass adds.
ServiceToPlatform(g, e) ==
  /\ e.relation = "integrated_with"
  /\ \E i, j \in 1..Len(g.nodes) :
       /\ g.nodes[i].id = e.from_id /\ g.nodes[i].type = "Service"
       /\ g.nodes[j].id = e.to_id /\ g.nodes[j].type = "Platform"

ApartFromInference(o) ==
  [ o EXCEPT !.graph.edges = SelectSeq(@, LAMBDA e : ~ ServiceToPlatform(o.graph, e)) ]

FallbackKeys ==
  LET rels(c) == FieldOr(c.ext, "relations", << >>)
      id(name) == name_to_id[name]
  IN  { << id(Strip(r.from)), id(Strip(r.to)), "related_to" >> :
          r \in { x \in UNION { Range(rels(extractions[i])) : i \in 1..Len(extractions) } :
                    /\ FieldOr(x, "relation", "related_to") \notin CONTROLLED_RELATIONS
                    /\ Strip(x.from) \in DOMAIN name_to_id
                    /\ Strip(x.to) \in DOMAIN name_to_id
                    /\ id(Strip(x.from)) # id(Strip(x.to)) } }
      \cup
      { << "event_" \o normalize_name(s.ev.name), id(s.ev.related_to), "related_to" >> :
          s \in { x \in Range(EventSightings) :
                    /\ FieldOr(x.ev, "type", None) \notin { "Launch", "Acquisition" }
                    /\ FieldOr(x.ev, "related_to", None) \in DOMAIN name_to_id } }

\* C17: every such edge is in the raw graph handed to normalize_graph, and
\* the returned graph has no edge that comes from it.
C17_FallbackThenDropped ==
  Returned =>
    LET rp == Repointed
    IN  \A k \in FallbackKeys :
           /\ \E e \in Range(RawEdges) : EdgeKey(e) = k
           /\ \A r \in rp : EdgeKey(r.raw) = k => r.key \notin GraphKeys

\* A relation "likes" between two nodes of the returned graph, and a milestone
\* event with a resolved related entity.
C17_Witness ==
  /\ Returned
  /\ \E i \in 1..Len(extractions) :
       \E x \in Range(FieldOr(extractions[i].ext, "relations", << >>)) :
          /\ FieldOr(x, "relation", None) = "likes"
          /\ \E r \in Repointed :
                /\ EdgeKey(r.raw) = << name_to_id[Strip(x.from)], name_to_id[Strip(x.to)], "related_to" >>
                /\ r.key[1] # r.key[2]
  /\ \E s \in Range(EventSightings) :
       /\ FieldOr(s.ev, "type", None) = "Milestone"
       /\ \E r \in Repointed :
             EdgeKey(r.raw) = << "event_" \o normalize_name(s.ev.name),
                                 name_to_id[s.ev.related_to], "related_to" >>

(***************************************************************************)
(* C18 build_graph raises no exception on input in which every entity      *)
(* record has a name, every relation record a from and a to, every event   *)
(* record a name, the three lists being present or not.                    *)
(***************************************************************************)
\* C18: no call of build_graph ends with an exception.
C18_NeverRaises == pc # "raised"

(***************************************************************************)
(* C19 In the returned graph the id of every non-Source node is            *)
(* generate_id(label, type), also after a type upgrade and after an alias  *)
(* merge has changed the label.                                            *)
(***************************************************************************)
\* C19: every non-Source node n of the returned graph has
\* n.id = generate_id(n.label, n.type).
C19_IdFromLabelAndType ==
  Returned =>
    \A n \in Range(graph.nodes) :
       n.type # "Source" => n.id = generate_id(n.label, n.type)

\* A node whose type was upgraded in the entity pass has been merged by
\* normalize_graph into a node with another label and another id.
C19_Witness ==
  /\ Returned
  /\ LET ss == Sightings(extractions)
         nm == NodeMap
     IN  \E m \in Range(RawNodes), n \in Range(graph.nodes) :
            /\ m.type # "Source"
            /\ m.id \in DOMAIN nm /\ nm[m.id] = n.id
            /\ m.label # n.label /\ m.id # n.id
            /\ \E i, j \in 1..Len(ss) :
                  /\ i < j
                  /\ SightingKey(ss[i]) = normalize_entity_label(m.label)
                  /\ SightingKey(ss[j]) = normalize_entity_label(m.label)
                  /\ TYPE_PRECEDENCE(SightingType(ss[i])) < TYPE_PRECEDENCE(SightingType(ss[j]))
                  /\ m.type = SightingType(ss[j])

(***************************************************************************)
(* C20                                                                     *)
(***************************************************************************)

\* No later element has a smaller key than an earlier one.
Ascending(keys) ==
  \A i, j \in 1..Len(keys) : i < j => ~ TripleLess(keys[j], keys[i])

NodeKeys(nodes) == [ i \in 1..Len(nodes) |-> << nodes[i].type, nodes[i].label, nodes[i].id >> ]

EdgeKeys(edges) ==
  [ i \in 1..Len(edges) |-> << edges[i].from_id, edges[i].relation, edges[i].to_id >> ]

\* C20: the graph returned by normalize_graph and by normalize_llm_graph has
\* its nodes ascending by (type, label, id) and its edges ascending by
\* (from_id, relation, to_id).
C20_Sorted ==
  fpc = "returned" => Ascending(NodeKeys(ret.nodes)) /\ Ascending(EdgeKeys(ret.edges))

\* normalize_llm_graph has returned two or more nodes, one of them made a
\* Partner, and two or more edges for a graph whose nodes and whose edges
\* were both out of order.
C20_Witness ==
  /\ fpc = "returned"
  /\ fn = "normalize_llm_graph"
  /\ Len(ret.nodes) >= 2
  /\ Len(ret.edges) >= 2
  /\ ~ Ascending(NodeKeys(arg.nodes))
  /\ ~ Ascending(EdgeKeys(arg.edges))
  /\ \E i \in 1..Len(ret.nodes) : ret.nodes[i].type = "Partner"

(***************************************************************************)
(* C21                                                                     *)
(***************************************************************************)

\* C21: build_graph called with an empty extraction list returns a graph
\* with no node, Source or other, and no edge.
C21_EmptyInput ==
  Returned /\ extractions = << >> =>
    /\ { n \in Range(graph.nodes) : n.type # "Source" } = {}
    /\ { n \in Range(graph.nodes) : n.type = "Source" } = {}
    /\ Len(graph.nodes) = 0
    /\ Len(graph.edges) = 0

\* The call with the empty list has returned.
C21_Witness == Returned /\ extractions = << >>

(***************************************************************************)
(* C22                                                                     *)
(***************************************************************************)

LlmReturned == fpc = "returned" /\ fn = "normalize_llm_graph"

\* The relations of the edges of the graph passed that leave id, described_in
\* and has_event set aside.
BusinessRelations(id) ==
  { e.relation : e \in { x \in Range(arg.edges) : x.from_id = id } } \ { "described_in", "has_event" }

\* The Company nodes of the graph passed that only partner.
PartnerOnly ==
  { n \in Range(arg.nodes) : n.type = "Company" /\ BusinessRelations(n.id) = { "partnered_with" } }

\* The id an end of an edge has once the Company nodes that only partner
\* have their Partner id.
AsPartner(id) ==
  IF \E n \in PartnerOnly : n.id = id
  THEN generate_id((CHOOSE n \in PartnerOnly : n.id = id).label, "Partner")
  ELSE id

RetIds == { n.id : n \in Range(ret.nodes) }

\* The edge is the direct edge of an event-mediated pair of the graph returned.
MediatedInRet(from_id, to_id, relation) ==
  /\ relation \in { "launched", "acquired" }
  /\ \E h, m \in Range(ret.edges) :
        /\ h.from_id = from_id /\ h.relation = "has_event"
        /\ m.from_id = h.to_id /\ m.relation = relation /\ m.to_id = to_id

\* C22: normalize_llm_graph returns, for every Company node whose relations
\* other than described_in and has_event are exactly partnered_with, a Partner
\* node with the id generate_id(label, "Partner") and the label, attributes
\* and sources of the Company node; no returned edge has the old id as an end
\* and every edge that had it, both ends being nodes of the returned graph
\* once renamed, is returned with the new id (the direct edge of an
\* event-mediated pair excepted); every other Company node is returned as it was.
C22_PartnerReclassified ==
  LlmReturned =>
    /\ \A n \in PartnerOnly :
          /\ Node(generate_id(n.label, "Partner"), "Partner", n.label, n.attributes, n.sources)
                \in Range(ret.nodes)
          /\ n.id \notin RetIds
          /\ \A e \in Range(ret.edges) : e.from_id # n.id /\ e.to_id # n.id
    /\ \A n \in Range(arg.nodes) :
          n.type = "Company" /\ n \notin PartnerOnly => n \in Range(ret.nodes)
    /\ \A e \in Range(arg.edges) :
          /\ AsPartner(e.from_id) # e.from_id \/ AsPartner(e.to_id) # e.to_id
          /\ AsPartner(e.from_id) \in RetIds
          /\ AsPartner(e.to_id) \in RetIds
          /\ AsPartner(e.from_id) # AsPartner(e.to_id)
          /\ ~ MediatedInRet(AsPartner(e.from_id), AsPartner(e.to_id), e.relation)
          => \E r \in Range(ret.edges) :
                /\ r.from_id = AsPartner(e.from_id)
                /\ r.to_id = AsPartner(e.to_id)
                /\ r.relation = e.relation

\* A Company node with a partnered_with and a has_event edge came back as a
\* Partner node with both edges leaving its new id, next to a Company node
\* that came back as it was.
C22_Witness ==
  /\ LlmReturned
  /\ \E n \in PartnerOnly :
        /\ \E e \in Range(arg.edges) : e.from_id = n.id /\ e.relation = "has_event"
        /\ \E r \in Range(ret.edges) :
              r.from_id = generate_id(n.label, "Partner") /\ r.relation = "partnered_with"
        /\ \E r \in Range(ret.edges) :
              r.from_id = generate_id(n.label, "Partner") /\ r.relation = "has_event"
  /\ \E n \in Range(arg.nodes) : n.type = "Company" /\ n \notin PartnerOnly /\ n \in Range(ret.nodes)

(***************************************************************************)
(* C23                                                                     *)
(***************************************************************************)

\* Both ends of every edge of g are ids of nodes of g.
Closed(g) ==
  \A e \in Range(g.edges) :
     /\ \E n \in Range(g.nodes) : n.id = e.from_id
     /\ \E n \in Range(g.nodes) : n.id = e.to_id

\* C23: in the graph returned by normalize_graph, by build_graph and by
\* normalize_llm_graph both ends of every edge are ids of nodes of that graph.
C23_ReferentialIntegrity ==
  /\ fpc = "returned" => Closed(ret)
  /\ Returned => Closed(graph)

\* normalize_llm_graph was passed an edge with an end that no node carries
\* and an edge between two of the nodes, and has returned an edge.
C23_Witness ==
  /\ LlmReturned
  /\ ~ Closed(arg)
  /\ \E e \in Range(arg.edges) :
        /\ e.from_id \in { n.id : n \in Range(arg.nodes) }
        /\ e.to_id \in { n.id : n \in Range(arg.nodes) }
  /\ Len(ret.edges) >= 1

(***************************************************************************)
(* C24                                                                     *)
(***************************************************************************)

NormReturned == fpc = "returned" /\ fn = "normalize_graph"

\* The normalized forms are equal, or one is a substring of the other and the
\* shorter has four characters or more.
AliasLabels(a, b) ==
  LET na == normalize_for_comparison(a)
      nb == normalize_for_comparison(b)
  IN  \/ na = nb
      \/ /\ Contains(na, nb) \/ Contains(nb, na)
         /\ Len(na) >= 4
         /\ Len(nb) >= 4

\* C24: the graph returned by normalize_graph has no two distinct nodes of
\* the same type whose labels are aliases.
C24_NoAliasesLeft ==
  NormReturned =>
    \A i, j \in 1..Len(ret.nodes) :
       i # j /\ ret.nodes[i].type = ret.nodes[j].type
         => ~ AliasLabels(ret.nodes[i].label, ret.nodes[j].label)

(***************************************************************************)
(* C25                                                                     *)
(***************************************************************************)

\* old id -> new id, as normalize_graph computes it from the nodes passed.
ArgNodeMap == MergeAliases(ValidNodes(arg.nodes)).node_map

\* The nodes passed that normalize_graph merged into the node with this id.
GroupOf(id) ==
  { n \in Range(ValidNodes(arg.nodes)) : n.id \in DOMAIN ArgNodeMap /\ ArgNodeMap[n.id] = id }

SourceKey(src) == << src.chunk_id, src.page >>

\* C25: a node normalize_graph returns for a group of two or more aliased
\* nodes has every attribute key of every member and, for every source
\* record of every member, one record with its (chunk_id, page), no two of
\* its records having the same.
C25_MergeKeepsAll ==
  NormReturned =>
    \A m \in Range(ret.nodes) :
       Cardinality(GroupOf(m.id)) >= 2 =>
         /\ \A n \in GroupOf(m.id) : DOMAIN n.attributes \subseteq DOMAIN m.attributes
         /\ \A n \in GroupOf(m.id) : \A s \in Range(n.sources) :
               \E t \in Range(m.sources) : SourceKey(t) = SourceKey(s)
         /\ \A i, j \in 1..Len(m.sources) :
               i # j => SourceKey(m.sources[i]) # SourceKey(m.sources[j])

(***************************************************************************)
(* C26                                                                     *)
(***************************************************************************)

\* old id -> new id of the merge the call made: step 2 of normalize_graph,
\* fix 1 of normalize_llm_graph.
MergeMap ==
  IF fn = "normalize_graph" THEN MergeAliases(ValidNodes(arg.nodes)).node_map
  ELSE MergeServices(SelectSeq(arg.nodes, LAMBDA n : n.type = "Service")).service_map

\* The nodes the merge looked at.
MergeCandidates ==
  IF fn = "normalize_graph" THEN Range(ValidNodes(arg.nodes))
  ELSE { n \in Range(arg.nodes) : n.type = "Service" }

\* The label is one of the labels, none of them is longer and none of the
\* same length comes before it in string order.
IsBestLabel(label, labels) ==
  /\ label \in labels
  /\ \A l \in labels : Len(l) <= Len(label)
  /\ \A l \in labels : Len(l) = Len(label) => ~ StrLess(l, label)

MergedLabelsBest(map, candidates) ==
  \A m \in Range(ret.nodes) :
     LET group == { n \in candidates : n.id \in DOMAIN map /\ map[n.id] = m.id }
     IN  Cardinality(group) >= 2 =>
           /\ IsBestLabel(m.label, { n.label : n \in group })
           /\ \A n \in group : n.type = m.type
           /\ m.id = generate_id(m.label, m.type)

\* C26: a node that normalize_graph or normalize_llm_graph returns for a
\* group of two or more merged nodes has the longest label of the group, the
\* first in string order among the longest, whatever the order of the nodes
\* passed, and the id generate_id of that label and the type of the group.
C26_BestLabel == fpc = "returned" => MergedLabelsBest(MergeMap, MergeCandidates)

TieMerged(map, candidates) ==
  \E m \in Range(ret.nodes) :
     LET group == { n \in candidates : n.id \in DOMAIN map /\ map[n.id] = m.id }
     IN  /\ Cardinality(group) >= 3
         /\ \E n \in group : Len(n.label) = Len(m.label) /\ StrLess(m.label, n.label)
         /\ \E n \in group : Len(n.label) < Len(m.label)
         /\ arg.nodes[1].label # m.label

\* normalize_llm_graph merged three services, two with labels of the greatest
\* length, the node passed first not having the label chosen.
C26_Witness == LlmReturned /\ TieMerged(MergeMap, MergeCandidates)

(***************************************************************************)
(* C27                                                                     *)
(***************************************************************************)

\* The names of the entity records of one extraction that have this type.
RecordsOfType(ext, typ) ==
  SelectSeq(FieldOr(ext, "entities", << >>), LAMBDA ent : FieldOr(ent, "type", "Entity") = typ)

HasIntegrationVerb(ext) ==
  \E r \in Range(FieldOr(ext, "relations", << >>)) : FieldOr(r, "relation", None) = "integrated_with"

\* The chunk may cause the inferred edge e: its extraction has one Service
\* record and one Platform record, whose ids are the ends of e, and an
\* integrated_with relation record; e carries the provenance of the chunk.
MayInfer(chunk, e) ==
  /\ Len(RecordsOfType(chunk.ext, "Service")) = 1
  /\ Len(RecordsOfType(chunk.ext, "Platform")) = 1
  /\ HasIntegrationVerb(chunk.ext)
  /\ e.from_id = Lookup(name_to_id, RecordsOfType(chunk.ext, "Service")[1].name)
  /\ e.to_id = Lookup(name_to_id, RecordsOfType(chunk.ext, "Platform")[1].name)
  /\ e.relation = "integrated_with"
  /\ e.sources = << [ chunk_id |-> chunk.chunk_id, page |-> chunk.page ] >>

C28_LlmEdgeGuarantees ==
  LlmReturned =>
    /\ \A e \in Range(ret.edges) : e.relation \in CONTROLLED_RELATIONS
    /\ \A e \in Range(ret.edges) : e.from_id # e.to_id
    /\ \A i, j \in 1..Len(ret.edges) :
          i # j => << ret.edges[i].from_id, ret.edges[i].to_id, ret.edges[i].relation >>
                     # << ret.edges[j].from_id, ret.edges[j].to_id, ret.edges[j].relation >>

(***************************************************************************)
(* C29                                                                     *)
(***************************************************************************)

\* C29: the graph normalize_llm_graph returns for a graph returned by
\* build_graph has no two nodes with the same id.
C29_LlmIdsUnique ==
  Returned /\ LlmReturned =>
    \A i, j \in 1..Len(ret.nodes) : i # j => ret.nodes[i].id # ret.nodes[j].id

(***************************************************************************)
(* C30                                                                     *)
(***************************************************************************)

\* C30: no step of normalize_graph or of normalize_llm_graph changes a node
\* or an edge, its sources included, of the graph passed.
C30_ArgumentUnchanged == [][ fpc # "idle" => arg' = arg ]_vars

====
